---- MODULE Spec2Model ----
(***************************************************************************)
(* Homework reviewer: the single-student review workflow                   *)
(* (HomeworkReviewAgent, in its two packages fastapi-app and fastapi_app)  *)
(* and the Excel result store (ExcelService).                              *)
(***************************************************************************)
EXTENDS Integers, Sequences, FiniteSets, TLC

VARIABLES
    agent,      \* the agent that runs: "fastapi-app" | "fastapi_app" | "simple"
    node,       \* the workflow graph node that runs next ("END" when the graph is finished)
    state,      \* the ReviewState record threaded through the nodes
    env,        \* the homework repository as this run sees it
    result,     \* what review_student handed to its caller
    trace,      \* the nodes whose work function has run, in order
    calls,      \* the Review Service calls made: [task, reply], in order
    store,      \* the lecture's Excel file: [exists, rows]
    before,     \* the store as it was before the last store operation
    ops         \* the store operations applied so far, oldest first

vars == <<agent, node, state, env, result, trace, calls, store, before, ops>>

(***************************************************************************)
(* Bounds of the model.                                                    *)
(***************************************************************************)
MaxRows == 2        \* rows of a store the workflow or the store operations start from
MaxOps == 2         \* store operations applied in a row to one store

None == "None"               \* None where a string may stand
Nothing == [none |-> TRUE]   \* None where a record may stand

Students == {"Ivanov", "Petrov"}
TaskIds == {"1", "2"}

(***************************************************************************)
(* Python values the store compares and orders.                            *)
(***************************************************************************)
\* A cell of the Task column is a number or a text; a cell of the Review Date
\* column is the text written by strftime or a datetime.
IntCell(n) == [t |-> "int", v |-> n]
StrCell(s) == [t |-> "str", v |-> s]
DateText(sec) == [t |-> "text", sec |-> sec]
DateTime(sec) == [t |-> "datetime", sec |-> sec]

\* str(x) of a Task cell.
str(cell) ==
    IF cell.t = "str" THEN cell.v
    ELSE IF cell.v = 1 THEN "1" ELSE IF cell.v = 2 THEN "2" ELSE "?"

\* Python's order of the strings in use (code point order).
StrRank(s) ==
    CASE s = "1" -> 1
      [] s = "2" -> 2
      [] s = "Ivanov" -> 3
      [] s = "Petrov" -> 4
      [] s = "unknown" -> 5
      [] OTHER -> 0

\* review_timestamp.strftime('%Y-%m-%d %H:%M:%S'): the sub-second part is dropped.
strftime(ts) == DateText(ts.sec)

\* A conversion that moves the moment by a second.
to_datetime_shifted(cell) == DateTime(cell.sec + 1)

\* pd.to_datetime of a Review Date cell.
to_datetime(cell) == DateTime(cell.sec)

(***************************************************************************)
(* ExcelService (fastapi-app/app/services/excel.py): the result store.     *)
(***************************************************************************)
\* pd.read_excel of the file, or the empty DataFrame with the ten columns.
load_reviews(file) == IF file.exists THEN file.rows ELSE <<>>

\* The row a TaskReview of a student is written as.
new_row(surname, lecture_number, task_review) ==
    [Surname |-> surname,
     Lecture |-> lecture_number,
     Task |-> StrCell(task_review.task),
     Score |-> task_review.score,
     Comments |-> task_review.comments,
     TechnicalCorrectness |-> task_review.technical_correctness,
     CodeStyle |-> task_review.code_style,
     Documentation |-> task_review.documentation,
     Performance |-> task_review.performance,
     ReviewDate |-> strftime(task_review.review_timestamp)]

\* A mask that compares the Task cells as they were read.
row_mask_of_cells(df, surname, task) ==
    {i \in 1..Len(df) : df[i].Surname = surname /\ df[i].Task = StrCell(task)}

\* mask = (df['Surname'] == surname) & (df['Task'].astype(str) == str(task))
row_mask(df, surname, task) ==
    {i \in 1..Len(df) : df[i].Surname = surname /\ str(df[i].Task) = task}

\* An overwrite of the score and the timestamp only.
update_rows_score_only(df, mask, task_review) ==
    [i \in 1..Len(df) |->
        IF i \in mask
        THEN [df[i] EXCEPT !.Score = task_review.score,
                           !.ReviewDate = strftime(task_review.review_timestamp)]
        ELSE df[i]]

\* The masked rows with their mutable columns overwritten.
update_rows(df, mask, task_review) ==
    [i \in 1..Len(df) |->
        IF i \in mask
        THEN [df[i] EXCEPT !.Score = task_review.score,
                           !.Comments = task_review.comments,
                           !.TechnicalCorrectness = task_review.technical_correctness,
                           !.CodeStyle = task_review.code_style,
                           !.Documentation = task_review.documentation,
                           !.Performance = task_review.performance,
                           !.ReviewDate = strftime(task_review.review_timestamp)]
        ELSE df[i]]

\* A pass that appends without looking for the key.
upsert_task_always_appends(df, surname, lecture_number, task_review) ==
    Append(df, new_row(surname, lecture_number, task_review))

\* One pass of the loop over review_response.details.
upsert_task(df, surname, lecture_number, task_review) ==
    LET mask == row_mask(df, surname, task_review.task)
    IN  IF mask # {}
        THEN update_rows(df, mask, task_review)
        ELSE Append(df, new_row(surname, lecture_number, task_review))

RECURSIVE upsert_details(_, _, _, _)
upsert_details(df, surname, lecture_number, details) ==
    IF details = <<>> THEN df
    ELSE upsert_details(upsert_task(df, surname, lecture_number, Head(details)),
                        surname, lecture_number, Tail(details))

\* A write that records a review without details as a row of score 0.
update_student_review_marks_empty(file, lecture_number, review_response) ==
    [exists |-> TRUE,
     rows |-> IF review_response.details = <<>>
              THEN Append(load_reviews(file),
                          [Surname |-> review_response.surname,
                           Lecture |-> lecture_number,
                           Task |-> StrCell("unknown"),
                           Score |-> 0,
                           Comments |-> "",
                           TechnicalCorrectness |-> 0, CodeStyle |-> 0,
                           Documentation |-> 0, Performance |-> 0,
                           ReviewDate |-> DateText(0)])
              ELSE upsert_details(load_reviews(file), review_response.surname,
                                  lecture_number, review_response.details)]

\* update_student_review: load, upsert every TaskReview, save.
update_student_review(file, lecture_number, review_response) ==
    [exists |-> TRUE,
     rows |-> upsert_details(load_reviews(file), review_response.surname,
                             lecture_number, review_response.details)]

\* The order with the oldest row of a key first.
before_by_key_and_oldest(a, b) ==
    \/ StrRank(a.Surname) < StrRank(b.Surname)
    \/ /\ a.Surname = b.Surname
       /\ \/ StrRank(str(a.Task)) < StrRank(str(b.Task))
          \/ str(a.Task) = str(b.Task) /\ a.ReviewDate.sec < b.ReviewDate.sec

\* Row a goes before row b in sort_values(['Surname', 'Task', 'Review Date'],
\* ascending=[True, True, False]).
before_by_key_and_date(a, b) ==
    \/ StrRank(a.Surname) < StrRank(b.Surname)
    \/ /\ a.Surname = b.Surname
       /\ \/ StrRank(str(a.Task)) < StrRank(str(b.Task))
          \/ str(a.Task) = str(b.Task) /\ a.ReviewDate.sec > b.ReviewDate.sec

\* Row a goes before row b in sort_values(['Surname', 'Task']).
before_by_key(a, b) ==
    \/ StrRank(a.Surname) < StrRank(b.Surname)
    \/ a.Surname = b.Surname /\ StrRank(str(a.Task)) < StrRank(str(b.Task))

\* One row put into an already sorted frame, after the rows it does not precede
\* (the sort keeps the order of rows that compare equal).
RECURSIVE insert_by_date(_, _)
insert_by_date(row, sorted) ==
    IF sorted = <<>> THEN <<row>>
    ELSE IF before_by_key_and_date(row, Head(sorted)) THEN <<row>> \o sorted
    ELSE <<Head(sorted)>> \o insert_by_date(row, Tail(sorted))

RECURSIVE sort_by_key_and_date(_)
sort_by_key_and_date(df) ==
    IF df = <<>> THEN <<>>
    ELSE insert_by_date(df[Len(df)], sort_by_key_and_date(SubSeq(df, 1, Len(df) - 1)))

RECURSIVE insert_by_key(_, _)
insert_by_key(row, sorted) ==
    IF sorted = <<>> THEN <<row>>
    ELSE IF before_by_key(row, Head(sorted)) THEN <<row>> \o sorted
    ELSE <<Head(sorted)>> \o insert_by_key(row, Tail(sorted))

RECURSIVE sort_by_key(_)
sort_by_key(df) ==
    IF df = <<>> THEN <<>>
    ELSE insert_by_key(df[Len(df)], sort_by_key(SubSeq(df, 1, Len(df) - 1)))

\* Rows of one student count as duplicates, whatever their task.
same_key_of_student(a, b) == a.Surname = b.Surname

\* df.drop_duplicates(subset=['Surname', 'Task'], keep='first')
same_key(a, b) == a.Surname = b.Surname /\ a.Task = b.Task

RECURSIVE drop_duplicates(_)
drop_duplicates(df) ==
    IF df = <<>> THEN <<>>
    ELSE LET init == SubSeq(df, 1, Len(df) - 1)
             last == df[Len(df)]
         IN  IF \E i \in 1..Len(init) : same_key(init[i], last)
             THEN drop_duplicates(init)
             ELSE Append(drop_duplicates(init), last)

\* The conversion of the dates alone, the Task cells left as they were read.
convert_dates_only(df) ==
    [i \in 1..Len(df) |->
        [df[i] EXCEPT !.ReviewDate = to_datetime(df[i].ReviewDate)]]

\* The two column conversions made before sorting.
convert_columns(df) ==
    [i \in 1..Len(df) |->
        [df[i] EXCEPT !.ReviewDate = to_datetime(df[i].ReviewDate),
                      !.Task = StrCell(str(df[i].Task))]]

\* remove_duplicate_entries: nothing for a missing or empty file; otherwise
\* convert, sort newest first inside each key, keep the first row of each key,
\* sort by key, save.
remove_duplicate_entries(file) ==
    IF ~file.exists THEN file
    ELSE IF file.rows = <<>> THEN file
    ELSE [exists |-> TRUE,
          rows |-> sort_by_key(drop_duplicates(
                       sort_by_key_and_date(convert_columns(file.rows))))]

(***************************************************************************)
(* Schemas (models/schemas.py) and the values the collaborators hand back. *)
(***************************************************************************)
\* Field(..., ge=0, le=100)
in_0_100(x) == x >= 0 /\ x <= 100

\* TaskReview(...) passes pydantic's validation.
valid_task_review(tr) ==
    /\ in_0_100(tr.score)
    /\ in_0_100(tr.technical_correctness)
    /\ in_0_100(tr.code_style)
    /\ in_0_100(tr.documentation)
    /\ in_0_100(tr.performance)

\* average_score is a float: sum / n, kept as the fraction.
Fraction(sum, n) == [sum |-> sum, n |-> n]
Zero == Fraction(0, 1)

\* ReviewResponse(...) passes pydantic's validation (average_score ge=0, le=100;
\* total_tasks ge=0).
valid_review_response(r) ==
    /\ r.average_score.sum >= 0
    /\ r.average_score.sum <= 100 * r.average_score.n
    /\ r.total_tasks >= 0

\* A zero-score response that counts the task asked for.
error_response_counts_task(surname, lecture_number) ==
    [surname |-> surname,
     lecture_number |-> lecture_number,
     average_score |-> Zero,
     total_tasks |-> 1,
     details |-> <<>>]

\* The zero-score response of _handle_error and of review_student's except branch.
error_response(surname, lecture_number) ==
    [surname |-> surname,
     lecture_number |-> lecture_number,
     average_score |-> Zero,
     total_tasks |-> 0,
     details |-> <<>>]

\* dict.get(key, default); a dictionary is a record of the keys it has.
get(d, key, default) == IF key \in DOMAIN d THEN d[key] ELSE default

\* What the language model's reply parses to (ReviewCriteria before validation),
\* or the call raising.
Replies ==
    {[raise |-> TRUE],
     [overall_score |-> 80, technical_correctness |-> 90, code_style |-> 70,
      documentation |-> 60, performance |-> 85, comments |-> "good"],
     [overall_score |-> 60, technical_correctness |-> 50, code_style |-> 70,
      documentation |-> 40, performance |-> 85, comments |-> "fair"],
     [overall_score |-> 150, technical_correctness |-> 90, code_style |-> 70,
      documentation |-> 60, performance |-> -5, comments |-> "good"]}

\* ReviewCriteria(...) passes pydantic's validation (chains/prompts.py).
valid_review_criteria(c) ==
    /\ in_0_100(c.technical_correctness)
    /\ in_0_100(c.code_style)
    /\ in_0_100(c.documentation)
    /\ in_0_100(c.performance)
    /\ in_0_100(c.overall_score)

(***************************************************************************)
(* The homework repository as one run sees it: for every task identifier   *)
(* whether the lecture has the task and whether the student handed in code.*)
(***************************************************************************)
Repositories == [TaskIds -> {"no_task", "no_code", "code"}]

\* RepositoryService.get_lecture_tasks: the lecture's task directories, sorted.
get_lecture_tasks(repo) ==
    LET has(t) == repo[t] # "no_task"
    IN  (IF has("1") THEN <<"lecture_task_1">> ELSE <<>>)
        \o (IF has("2") THEN <<"lecture_task_2">> ELSE <<>>)

\* task.split('_')[-1]
task_number(task_dir) ==
    CASE task_dir = "lecture_task_1" -> "1"
      [] task_dir = "lecture_task_2" -> "2"
      [] OTHER -> task_dir

\* RepositoryService.read_student_code: the student's files of one task (the
\* keys of the dictionary), none when the task or the student's directory is
\* missing.
read_student_code(repo, task) ==
    IF task \in TaskIds /\ repo[task] = "code" THEN {task} ELSE {}

(***************************************************************************)
(* ReviewChain.review_student_task (fastapi-app/app/chains/review_chains.py)*)
(***************************************************************************)
review_student_task(repo, task, reply) ==
    IF read_student_code(repo, task) = {}
    THEN [error |-> "No code found", score |-> 0, comments |-> "No submission found"]
    ELSE IF "raise" \in DOMAIN reply \/ ~valid_review_criteria(reply)
    THEN [error |-> "review failed", task |-> task, score |-> 0,
          comments |-> "Error during review"]
    ELSE [task |-> task,
          score |-> reply.overall_score,
          comments |-> reply.comments,
          technical_correctness |-> reply.technical_correctness,
          code_style |-> reply.code_style,
          documentation |-> reply.documentation,
          performance |-> reply.performance]

(***************************************************************************)
(* HomeworkReviewAgent of fastapi-app (agents/review_agent.py): the work   *)
(* functions of the six nodes and of handle_error.  Each takes the state   *)
(* and what its collaborators did, and gives the state it returns.         *)
(***************************************************************************)
\* `state.get("error_message")` is truthy.
has_error(st) == st.error_message # None /\ st.error_message # ""

_validate_input(st) ==
    IF st.student_surname = ""
    THEN [st EXCEPT !.error_message = "Student surname is required"]
    ELSE IF st.lecture_number < 1
    THEN [st EXCEPT !.error_message = "Valid lecture number is required"]
    ELSE [st EXCEPT !.current_step = "validation_complete"]

\* The files of every task of the lecture, merged by code_content.update.
RECURSIVE read_all_tasks(_, _)
read_all_tasks(repo, tasks) ==
    IF tasks = <<>> THEN {}
    ELSE read_student_code(repo, task_number(Head(tasks)))
             \cup read_all_tasks(repo, Tail(tasks))

\* A fetch that hands on whatever it found, nothing included.
_get_student_code_accepts_empty(st, repo, raises) ==
    IF raises THEN [st EXCEPT !.error_message = "Error retrieving code"]
    ELSE [st EXCEPT !.code_content =
                        IF st.task # None THEN read_student_code(repo, st.task)
                        ELSE read_all_tasks(repo, get_lecture_tasks(repo)),
                    !.current_step = "code_retrieved"]

_get_student_code(st, repo, raises) ==
    IF raises THEN [st EXCEPT !.error_message = "Error retrieving code"]
    ELSE LET code_content ==
                 IF st.task # None THEN read_student_code(repo, st.task)
                 ELSE read_all_tasks(repo, get_lecture_tasks(repo))
         IN  IF code_content = {}
             THEN [st EXCEPT !.error_message = "No code found for student"]
             ELSE [st EXCEPT !.code_content = code_content,
                             !.current_step = "code_retrieved"]

\* CodeAnalysisService.get_code_summary, as far as the workflow reads it.
get_code_summary(code_content) == [total_files |-> Cardinality(code_content)]

_analyze_code(st, raises) ==
    IF raises THEN [st EXCEPT !.error_message = "Error analyzing code"]
    ELSE [st EXCEPT !.code_metrics = get_code_summary(st.code_content),
                    !.current_step = "code_analyzed"]

RECURSIVE sum_scores(_)
sum_scores(results) ==
    IF results = <<>> THEN 0
    ELSE get(Head(results), "score", 0) + sum_scores(Tail(results))

\* An average over the results of the reviews that did not fail.
combine_results_skips_failed(review_results) ==
    LET reviewed == SelectSeq(review_results, LAMBDA r : "error" \notin DOMAIN r)
    IN  IF reviewed # <<>>
        THEN [average_score |-> Fraction(sum_scores(reviewed), Len(reviewed)),
              task_results |-> review_results]
        ELSE [average_score |-> Zero, task_results |-> review_results]

\* The dictionary that combines the results of all tasks.
combine_results(review_results) ==
    IF review_results # <<>>
    THEN [average_score |-> Fraction(sum_scores(review_results), Len(review_results)),
          task_results |-> review_results]
    ELSE [average_score |-> Zero, task_results |-> <<>>]

\* The calls of the review chain _review_code makes, with what each gave: one
\* for every task it reviews that has code.
review_calls(st, repo, replies, raises) ==
    IF st.task # None
    THEN IF read_student_code(repo, st.task) = {} THEN <<>>
         ELSE <<[task |-> st.task, reply |-> replies[st.task]]>>
    ELSE IF raises THEN <<>>
    ELSE LET tasks == get_lecture_tasks(repo)
             called(i) == read_student_code(repo, task_number(tasks[i])) # {}
             call(i) == [task |-> task_number(tasks[i]),
                         reply |-> replies[task_number(tasks[i])]]
         IN  (IF Len(tasks) >= 1 /\ called(1) THEN <<call(1)>> ELSE <<>>)
             \o (IF Len(tasks) >= 2 /\ called(2) THEN <<call(2)>> ELSE <<>>)

_review_code(st, repo, replies, raises) ==
    IF st.task # None
    THEN [st EXCEPT !.review_result = review_student_task(repo, st.task, replies[st.task]),
                    !.current_step = "code_reviewed"]
    ELSE IF raises THEN [st EXCEPT !.error_message = "Error reviewing code"]
    ELSE LET tasks == get_lecture_tasks(repo)
             review_results ==
                 [i \in 1..Len(tasks) |->
                     review_student_task(repo, task_number(tasks[i]),
                                         replies[task_number(tasks[i])])]
         IN  [st EXCEPT !.review_result = combine_results(review_results),
                        !.current_step = "code_reviewed"]

\* TaskReview(task=..., score=int(round(...)), ...) of one result dictionary;
\* the scores are integers already, which int(round(.)) leaves as they are.
task_review_of(task, task_result, now) ==
    [task |-> task,
     score |-> get(task_result, "score", 0),
     comments |-> get(task_result, "comments", ""),
     technical_correctness |-> get(task_result, "technical_correctness", 0),
     code_style |-> get(task_result, "code_style", 0),
     documentation |-> get(task_result, "documentation", 0),
     performance |-> get(task_result, "performance", 0),
     review_timestamp |-> now]

\* The ReviewResponse _calculate_score builds.
review_response_of(st, now) ==
    IF st.task # None
    THEN [surname |-> st.student_surname,
          lecture_number |-> st.lecture_number,
          average_score |-> Fraction(get(st.review_result, "score", 0), 1),
          total_tasks |-> 1,
          details |-> <<task_review_of(st.task, st.review_result, now)>>]
    ELSE LET task_results == get(st.review_result, "task_results", <<>>)
             task_reviews ==
                 [i \in 1..Len(task_results) |->
                     task_review_of(get(task_results[i], "task", "unknown"),
                                    task_results[i], now)]
         IN  [surname |-> st.student_surname,
              lecture_number |-> st.lecture_number,
              average_score |-> get(st.review_result, "average_score", Zero),
              total_tasks |-> Len(task_reviews),
              details |-> task_reviews]

_calculate_score(st, now) ==
    LET response == review_response_of(st, now)
    IN  IF /\ \A i \in 1..Len(response.details) : valid_task_review(response.details[i])
           /\ valid_review_response(response)
        THEN [st EXCEPT !.final_response = response,
                        !.current_step = "score_calculated"]
        ELSE [st EXCEPT !.error_message = "Error calculating score"]

\* _save_results, the state it returns; the file is written by the action.
_save_results(st, raises) ==
    IF raises THEN [st EXCEPT !.error_message = "Error saving results"]
    ELSE [st EXCEPT !.current_step = "results_saved"]

\* A handler that logs the error and builds no response.
_handle_error_builds_nothing(st) == st

_handle_error(st) ==
    [st EXCEPT !.final_response = error_response(st.student_surname, st.lecture_number)]

\* Edges that lead from every stage to the next one, error or not.
next_node_goes_on(n, st) ==
    CASE n = "validate_input" -> "get_code"
      [] n = "get_code" -> "analyze_code"
      [] n = "analyze_code" -> "review_code"
      [] n = "review_code" -> "calculate_score"
      [] n = "calculate_score" -> "save_results"
      [] n = "save_results" -> "END"
      [] n = "handle_error" -> "END"

\* Edges that go from fetch to review, past the analysis.
next_node_skips_analysis(n, st) ==
    CASE n = "validate_input" -> IF has_error(st) THEN "handle_error" ELSE "get_code"
      [] n = "get_code" -> IF has_error(st) THEN "handle_error" ELSE "review_code"
      [] n = "analyze_code" -> IF has_error(st) THEN "handle_error" ELSE "review_code"
      [] n = "review_code" -> IF has_error(st) THEN "handle_error" ELSE "calculate_score"
      [] n = "calculate_score" -> IF has_error(st) THEN "handle_error" ELSE "save_results"
      [] n = "save_results" -> "END"
      [] n = "handle_error" -> "END"

\* The edges of _create_workflow: the node that follows node n when its work
\* function returned st.
next_node(n, st) ==
    CASE n = "validate_input" -> IF has_error(st) THEN "handle_error" ELSE "get_code"
      [] n = "get_code" -> IF has_error(st) THEN "handle_error" ELSE "analyze_code"
      [] n = "analyze_code" -> IF has_error(st) THEN "handle_error" ELSE "review_code"
      [] n = "review_code" -> IF has_error(st) THEN "handle_error" ELSE "calculate_score"
      [] n = "calculate_score" -> IF has_error(st) THEN "handle_error" ELSE "save_results"
      [] n = "save_results" -> "END"
      [] n = "handle_error" -> "END"

\* ReviewState(...) of review_student.
initial_state(student_surname, lecture_number, task) ==
    [student_surname |-> student_surname,
     lecture_number |-> lecture_number,
     task |-> task,
     current_step |-> "start",
     error_message |-> None,
     code_content |-> {},
     code_metrics |-> Nothing,
     review_result |-> Nothing,
     final_response |-> Nothing]

(***************************************************************************)
(* SimpleReviewAgent of fastapi-app (agents/simple_review_agent.py), the   *)
(* agent the package exports as HomeworkReviewAgent: one method, no graph, *)
(* the review computed from the analyzer's summary.                        *)
(***************************************************************************)
\* What get_code_summary gives _simple_review for a task: it raises, or a
\* summary with the three averages _simple_review reads.
Summaries ==
    {[raise |-> TRUE],
     [average_complexity |-> 5, average_naming_convention_score |-> 80,
      average_docstring_coverage |-> 51],
     [average_complexity |-> 60, average_naming_convention_score |-> 100,
      average_docstring_coverage |-> 0]}

\* The value as it is, out of range or not.
clamp_keeps_value(x) == x

\* min(100, max(0, x))
clamp(x) == IF x < 0 THEN 0 ELSE IF x > 100 THEN 100 ELSE x

\* int(round(tenths / 10)), Python's round to the even neighbour at a half.
round_tenths(tenths) ==
    LET q == tenths \div 10
        r == tenths % 10
    IN  IF r < 5 THEN q
        ELSE IF r > 5 THEN q + 1
        ELSE IF q % 2 = 0 THEN q ELSE q + 1

\* SimpleReviewAgent._simple_review
_simple_review(task, summary, now) ==
    IF "raise" \in DOMAIN summary
    THEN [task |-> task, score |-> 50, comments |-> "Error during review",
          technical_correctness |-> 50, code_style |-> 50,
          documentation |-> 50, performance |-> 50,
          review_timestamp |-> now]
    ELSE LET technical_score == clamp(100 - summary.average_complexity * 2)
             style_score == clamp(summary.average_naming_convention_score)
             doc_score == clamp(summary.average_docstring_coverage)
             perf_score == 85
         IN  [task |-> task,
              score |-> round_tenths(technical_score * 4 + style_score * 3
                                     + doc_score * 2 + perf_score * 1),
              comments |-> "generated comments",
              technical_correctness |-> technical_score,
              code_style |-> style_score,
              documentation |-> doc_score,
              performance |-> perf_score,
              review_timestamp |-> now]

\* The _simple_review calls of one review_student, in their order: the task
\* asked for, or every task of the lecture, when the student has code for it.
simple_review_calls(st, repo, summaries) ==
    LET tasks == IF st.task # None THEN <<st.task>>
                 ELSE [i \in 1..Len(get_lecture_tasks(repo)) |->
                          task_number(get_lecture_tasks(repo)[i])]
    IN  [i \in 1..Len(SelectSeq(tasks, LAMBDA t : read_student_code(repo, t) # {})) |->
            LET task == SelectSeq(tasks, LAMBDA t : read_student_code(repo, t) # {})[i]
            IN  [task |-> task, reply |-> summaries[task]]]

RECURSIVE sum_task_scores(_)
sum_task_scores(task_reviews) ==
    IF task_reviews = <<>> THEN 0
    ELSE Head(task_reviews).score + sum_task_scores(Tail(task_reviews))

\* The ReviewResponse review_student builds before it saves.
simple_response(st, repo, summaries, now) ==
    LET made == simple_review_calls(st, repo, summaries)
        task_reviews == [i \in 1..Len(made) |->
                            _simple_review(made[i].task, made[i].reply, now)]
    IN  IF st.task # None
        THEN IF task_reviews = <<>>
             THEN error_response(st.student_surname, st.lecture_number)
             ELSE [surname |-> st.student_surname,
                   lecture_number |-> st.lecture_number,
                   average_score |-> Fraction(task_reviews[1].score, 1),
                   total_tasks |-> 1,
                   details |-> task_reviews]
        ELSE [surname |-> st.student_surname,
              lecture_number |-> st.lecture_number,
              average_score |-> IF task_reviews # <<>>
                                THEN Fraction(sum_task_scores(task_reviews),
                                              Len(task_reviews))
                                ELSE Zero,
              total_tasks |-> Len(task_reviews),
              details |-> task_reviews]

\* review_student returns before it saves: a task was asked for and the
\* student has no code for it.
simple_returns_early(st, repo) ==
    st.task # None /\ read_student_code(repo, st.task) = {}

(***************************************************************************)
(* HomeworkReviewAgent of fastapi_app (agents/review_agent.py): four nodes *)
(* and handle_error.  Only get_code catches what its collaborators raise;  *)
(* state.student_surname holds the username.                               *)
(***************************************************************************)
\* The name of a task folder of the cloned repository.
task_folder(task) == "task_" \o task

\* all_code[f"{task_path.name}/{fname}"]: the keys, one file for each task folder
\* that holds code.
cloud_read_code(repo) == {task_folder(t) : t \in {u \in TaskIds : repo[u] = "code"}}

cloud_get_student_code(st, repo, raises) ==
    IF raises THEN [st EXCEPT !.error_message = "Error retrieving code"]
    ELSE LET all_code == cloud_read_code(repo)
         IN  IF all_code = {}
             THEN [st EXCEPT !.error_message = "No code found for student"]
             ELSE [st EXCEPT !.code_content = all_code]

cloud_analyze_code(st) ==
    [st EXCEPT !.code_metrics = get_code_summary(st.code_content)]

\* ReviewChain.review_student_task of fastapi_app: the code is handed in.
cloud_review_student_task(task, task_code, reply) ==
    IF task_code = {}
    THEN [error |-> "No code found", score |-> 0, comments |-> "No submission found"]
    ELSE IF "raise" \in DOMAIN reply
    THEN [error |-> "review failed", task |-> task, score |-> 0,
          comments |-> "Error during review"]
    ELSE [task |-> task,
          score |-> reply.overall_score,
          comments |-> reply.comments,
          technical_correctness |-> reply.technical_correctness,
          code_style |-> reply.code_style,
          documentation |-> reply.documentation,
          performance |-> reply.performance]

\* tasks_with_code, in the order of code_content.
tasks_with_code(code_content) ==
    (IF task_folder("1") \in code_content THEN <<task_folder("1")>> ELSE <<>>)
    \o (IF task_folder("2") \in code_content THEN <<task_folder("2")>> ELSE <<>>)

\* The task identifier a task folder was named after.
folder_task(folder) == IF folder = task_folder("1") THEN "1" ELSE "2"

cloud_review_code(st, replies) ==
    LET tasks == tasks_with_code(st.code_content)
        review_results ==
            [i \in 1..Len(tasks) |->
                cloud_review_student_task(tasks[i], {tasks[i]},
                                          replies[folder_task(tasks[i])])]
    IN  [st EXCEPT !.review_result = combine_results(review_results)]

\* The calls of the review chain that _review_code of fastapi_app makes.
cloud_review_calls(st, replies) ==
    LET tasks == tasks_with_code(st.code_content)
    IN  [i \in 1..Len(tasks) |->
            [task |-> tasks[i], reply |-> replies[folder_task(tasks[i])]]]

\* The ReviewResponse _save_results builds.
cloud_review_response_of(st, now) ==
    LET task_results == get(st.review_result, "task_results", <<>>)
        task_reviews ==
            [i \in 1..Len(task_results) |->
                task_review_of(get(task_results[i], "task", "unknown"),
                               task_results[i], now)]
    IN  [surname |-> st.student_surname,
         lecture_number |-> st.lecture_number,
         average_score |-> get(st.review_result, "average_score", Zero),
         total_tasks |-> Len(task_reviews),
         details |-> task_reviews]

\* ExcelService.update_student_review of fastapi_app: nothing without a bucket
\* name; a failed download counts as "no file yet".
cloud_update_student_review(file, lecture_number, review_response, bucket_name, downloaded) ==
    IF ~bucket_name THEN file
    ELSE [exists |-> TRUE,
          rows |-> upsert_details(IF downloaded THEN load_reviews(file) ELSE <<>>,
                                  review_response.surname, lecture_number,
                                  review_response.details)]

cloud_next_node(n, st) ==
    CASE n = "get_code" -> IF has_error(st) THEN "handle_error" ELSE "analyze_code"
      [] n = "analyze_code" -> "review_code"
      [] n = "review_code" -> "save_results"
      [] n = "save_results" -> "END"
      [] n = "handle_error" -> "END"

(***************************************************************************)
(* Stores and requests the runs start from.                                *)
(***************************************************************************)
NoFile == [exists |-> FALSE, rows |-> <<>>]
File(rows) == [exists |-> TRUE, rows |-> rows]

\* A row written by an earlier review.
HistoricRow(surname, task_cell, sec) ==
    [Surname |-> surname, Lecture |-> 1, Task |-> task_cell,
     Score |-> IF sec = 1 THEN 70 ELSE 85,
     Comments |-> "earlier review",
     TechnicalCorrectness |-> 50, CodeStyle |-> 50,
     Documentation |-> 50, Performance |-> 50,
     ReviewDate |-> DateText(sec)]

HistoricRows ==
    {HistoricRow(s, c, d) : s \in Students,
                            c \in {IntCell(1), StrCell("1"), StrCell("2")},
                            d \in {1, 2}}

RECURSIVE SeqsUpTo(_, _)
SeqsUpTo(S, n) ==
    IF n = 0 THEN {<<>>}
    ELSE LET shorter == SeqsUpTo(S, n - 1)
         IN  shorter \cup {Append(q, x) : q \in {r \in shorter : Len(r) = n - 1}, x \in S}

\* The stores the store operations start from: no file, or a file of up to
\* MaxRows rows, duplicates of a key included.
Stores == {NoFile} \cup {File(rows) : rows \in SeqsUpTo(HistoricRows, MaxRows)}

\* The stores a workflow run starts from.
SeedStores(a) ==
    IF a # "fastapi_app"
    THEN {NoFile, File(<<>>),
          File(<<HistoricRow("Ivanov", IntCell(1), 1)>>),
          File(<<HistoricRow("Petrov", StrCell("2"), 2)>>),
          File(<<HistoricRow("Ivanov", StrCell("1"), 1),
                 HistoricRow("Petrov", StrCell("2"), 2)>>)}
    ELSE {NoFile,
          File(<<HistoricRow("Ivanov", StrCell(task_folder("1")), 1)>>),
          File(<<HistoricRow("Petrov", StrCell(task_folder("2")), 2)>>)}

Lectures == {0, 1}

NotCalled == [kind |-> "none"]
Returned(response) == [kind |-> "returned", value |-> response]
Raised == [kind |-> "raised"]

(***************************************************************************)
(* The workflow run of one review_student call.                            *)
(***************************************************************************)
Init ==
    /\ agent \in {"fastapi-app", "fastapi_app", "simple"}
    /\ \E surname \in Students \cup {""}, lecture \in Lectures,
          task \in TaskIds \cup {None} :
          /\ agent = "fastapi_app" => task = None
          /\ state = initial_state(surname, lecture, task)
    /\ node = CASE agent = "fastapi-app" -> "validate_input"
                [] agent = "fastapi_app" -> "get_code"
                [] agent = "simple" -> "review_student"
    /\ env \in [repo : Repositories, now : [sec : {3}, frac : {0, 1}],
              bucket_name : BOOLEAN]
    /\ agent # "fastapi_app" => env.bucket_name
    /\ result = NotCalled
    /\ trace = <<>>
    /\ calls = <<>>
    /\ store \in SeedStores(agent)
    /\ before = store
    /\ ops = <<>>

Running(a, n) == agent = a /\ node = n /\ result = NotCalled

\* A node of the fastapi-app graph ran: its work function returned st.
Step(n, st) ==
    /\ state' = st
    /\ node' = next_node(n, st)
    /\ trace' = Append(trace, n)
    /\ UNCHANGED <<agent, env, result>>

ValidateInput ==
    /\ Running("fastapi-app", "validate_input")
    /\ Step("validate_input", _validate_input(state))
    /\ UNCHANGED <<calls, store, before, ops>>

GetCode ==
    /\ Running("fastapi-app", "get_code")
    /\ \E raises \in BOOLEAN :
          Step("get_code", _get_student_code(state, env.repo, raises))
    /\ UNCHANGED <<calls, store, before, ops>>

AnalyzeCode ==
    /\ Running("fastapi-app", "analyze_code")
    /\ \E raises \in BOOLEAN :
          Step("analyze_code", _analyze_code(state, raises))
    /\ UNCHANGED <<calls, store, before, ops>>

ReviewCode ==
    /\ Running("fastapi-app", "review_code")
    /\ \E replies \in [TaskIds -> Replies], raises \in BOOLEAN :
          /\ Step("review_code", _review_code(state, env.repo, replies, raises))
          /\ calls' = calls \o review_calls(state, env.repo, replies, raises)
    /\ UNCHANGED <<store, before, ops>>

CalculateScore ==
    /\ Running("fastapi-app", "calculate_score")
    /\ Step("calculate_score", _calculate_score(state, env.now))
    /\ UNCHANGED <<calls, store, before, ops>>

SaveResults ==
    /\ Running("fastapi-app", "save_results")
    /\ \E raises \in BOOLEAN :
          /\ Step("save_results", _save_results(state, raises))
          /\ store' = IF raises THEN store
                      ELSE update_student_review(store, state.lecture_number,
                                                 state.final_response)
          /\ ops' = IF raises THEN ops
                    ELSE Append(ops, [op |-> "upsert", arg |-> state.final_response])
    /\ before' = store
    /\ UNCHANGED calls

HandleError ==
    /\ Running("fastapi-app", "handle_error")
    /\ Step("handle_error", _handle_error(state))
    /\ UNCHANGED <<calls, store, before, ops>>

\* review_student: `return result["final_response"]` once ainvoke is back.
ReviewStudentReturns ==
    /\ Running("fastapi-app", "END")
    /\ result' = Returned(state.final_response)
    /\ UNCHANGED <<agent, node, state, env, trace, calls, store, before, ops>>

\* A node of the fastapi_app graph ran: its work function returned st.
CloudStep(n, st) ==
    /\ state' = st
    /\ node' = cloud_next_node(n, st)
    /\ trace' = Append(trace, n)
    /\ UNCHANGED <<agent, env, result>>

\* A node of the fastapi_app graph raised: ainvoke raises, and review_student,
\* which has no try block, raises to its caller.
CloudRaise(n) ==
    /\ state' = state
    /\ node' = "END"
    /\ trace' = Append(trace, n)
    /\ result' = Raised
    /\ UNCHANGED <<agent, env>>

CloudGetCode ==
    /\ Running("fastapi_app", "get_code")
    /\ \E raises \in BOOLEAN :
          CloudStep("get_code", cloud_get_student_code(state, env.repo, raises))
    /\ UNCHANGED <<calls, store, before, ops>>

CloudAnalyzeCode ==
    /\ Running("fastapi_app", "analyze_code")
    /\ \E raises \in BOOLEAN :
          IF raises THEN CloudRaise("analyze_code")
          ELSE CloudStep("analyze_code", cloud_analyze_code(state))
    /\ UNCHANGED <<calls, store, before, ops>>

CloudReviewCode ==
    /\ Running("fastapi_app", "review_code")
    /\ \E replies \in [TaskIds -> {r \in Replies : "raise" \in DOMAIN r
                                                    \/ valid_review_criteria(r)}] :
          /\ CloudStep("review_code", cloud_review_code(state, replies))
          /\ calls' = calls \o cloud_review_calls(state, replies)
    /\ UNCHANGED <<store, before, ops>>

CloudSaveResults ==
    /\ Running("fastapi_app", "save_results")
    /\ LET response == cloud_review_response_of(state, env.now)
           valid == /\ \A i \in 1..Len(response.details) :
                          valid_task_review(response.details[i])
                    /\ valid_review_response(response)
       IN  \E download_ok \in BOOLEAN, upload_ok \in BOOLEAN :
              IF valid /\ (upload_ok \/ ~env.bucket_name)
              THEN /\ CloudStep("save_results", [state EXCEPT !.final_response = response])
                   /\ store' = cloud_update_student_review(
                                   store, state.lecture_number, response,
                                   env.bucket_name, store.exists /\ download_ok)
                   /\ ops' = IF env.bucket_name
                             THEN Append(ops, [op |-> "upsert", arg |-> response])
                             ELSE ops
              ELSE /\ CloudRaise("save_results")
                   /\ UNCHANGED <<store, ops>>
    /\ before' = store
    /\ UNCHANGED calls

CloudHandleError ==
    /\ Running("fastapi_app", "handle_error")
    /\ CloudStep("handle_error", _handle_error(state))
    /\ UNCHANGED <<calls, store, before, ops>>

\* review_student of fastapi_app: `return result["final_response"]`.
CloudReviewStudentReturns ==
    /\ Running("fastapi_app", "END")
    /\ result' = Returned(state.final_response)
    /\ UNCHANGED <<agent, node, state, env, trace, calls, store, before, ops>>

\* SimpleReviewAgent.review_student, the whole method: what the repository,
\* the analyzer or the store raise is caught and answered with the zero-score
\* response.
SimpleReviewStudent ==
    /\ Running("simple", "review_student")
    /\ \E summaries \in [TaskIds -> Summaries], read_raises, save_raises \in BOOLEAN :
          LET response == simple_response(state, env.repo, summaries, env.now)
              degraded == error_response(state.student_surname, state.lecture_number)
          IN  IF read_raises
              THEN /\ result' = Returned(degraded)
                   /\ UNCHANGED <<calls, store, ops>>
              ELSE /\ calls' = calls \o simple_review_calls(state, env.repo, summaries)
                   /\ IF simple_returns_early(state, env.repo)
                      THEN /\ result' = Returned(response)
                           /\ UNCHANGED <<store, ops>>
                      ELSE IF save_raises
                      THEN /\ result' = Returned(degraded)
                           /\ UNCHANGED <<store, ops>>
                      ELSE /\ result' = Returned(response)
                           /\ store' = update_student_review(
                                           store, state.lecture_number, response)
                           /\ ops' = Append(ops, [op |-> "upsert", arg |-> response])
    /\ before' = store
    /\ node' = "END"
    /\ trace' = Append(trace, "review_student")
    /\ UNCHANGED <<agent, state, env>>

Next ==
    \/ ValidateInput
    \/ GetCode
    \/ AnalyzeCode
    \/ ReviewCode
    \/ CalculateScore
    \/ SaveResults
    \/ HandleError
    \/ ReviewStudentReturns
    \/ CloudGetCode
    \/ CloudAnalyzeCode
    \/ CloudReviewCode
    \/ CloudSaveResults
    \/ CloudHandleError
    \/ CloudReviewStudentReturns
    \/ SimpleReviewStudent

Spec == Init /\ [][Next]_vars

(***************************************************************************)
(* The store operations on their own: update_student_review and            *)
(* remove_duplicate_entries of fastapi-app applied, up to MaxOps times in  *)
(* a row, to a store of earlier reviews.                                   *)
(***************************************************************************)
\* A TaskReview as a workflow run hands it to the store.
NewTaskReview(task, score, ts) ==
    [task |-> task, score |-> score, comments |-> "new review",
     technical_correctness |-> 90, code_style |-> 80,
     documentation |-> 70, performance |-> 60,
     review_timestamp |-> ts]

NewTaskReviews ==
    {NewTaskReview(t, 70, [sec |-> 3, frac |-> 1]) : t \in TaskIds}
    \cup {NewTaskReview(t, 85, [sec |-> 4, frac |-> 0]) : t \in TaskIds}

\* The details lists handed to the store: one TaskReview, or two of which the
\* second is the later one (of the same task or of another).
DetailLists ==
    {<<tr>> : tr \in NewTaskReviews}
    \cup {<<a, b>> : a \in {x \in NewTaskReviews : x.score = 70},
                     b \in {x \in NewTaskReviews : x.score = 85}}

StoreResponse(surname, details) ==
    [surname |-> surname, lecture_number |-> 1,
     average_score |-> Zero, total_tasks |-> Len(details), details |-> details]

StoreInit ==
    /\ agent = None
    /\ node = "END"
    /\ state = Nothing
    /\ env = Nothing
    /\ result = NotCalled
    /\ trace = <<>>
    /\ calls = <<>>
    /\ store \in Stores
    /\ before = store
    /\ ops = <<>>

UpdateStudentReview ==
    /\ agent = None
    /\ Len(ops) < MaxOps
    /\ \E surname \in Students, details \in DetailLists :
          LET response == StoreResponse(surname, details)
          IN  /\ store' = update_student_review(store, 1, response)
              /\ ops' = Append(ops, [op |-> "upsert", arg |-> response])
    /\ before' = store
    /\ UNCHANGED <<agent, node, state, env, result, trace, calls>>

RemoveDuplicateEntries ==
    /\ agent = None
    /\ Len(ops) < MaxOps
    /\ store' = remove_duplicate_entries(store)
    /\ ops' = Append(ops, [op |-> "dedupe"])
    /\ before' = store
    /\ UNCHANGED <<agent, node, state, env, result, trace, calls>>

StoreNext ==
    \/ UpdateStudentReview
    \/ RemoveDuplicateEntries

StoreSpec == StoreInit /\ [][StoreNext]_vars

(***************************************************************************)
(* Properties of the workflow (checked under Spec).                        *)
(***************************************************************************)
InTrace(n) == \E i \in 1..Len(trace) : trace[i] = n

\* The run is in, or has been through, the error state.
EnteredError == node = "handle_error" \/ InTrace("handle_error")

\* The six stages in their order, and the state that follows each on success.
Stages ==
    <<"validate_input", "get_code", "analyze_code", "review_code",
      "calculate_score", "save_results">>

StageAfter(n) ==
    LET i == CHOOSE k \in 1..Len(Stages) : Stages[k] = n
    IN  IF i = Len(Stages) THEN "END" ELSE Stages[i + 1]

IsStage(n) == \E k \in 1..Len(Stages) : Stages[k] = n

\* C1: in the six-stage workflow, a stage whose work function returns with an
\* error message is followed by the error state, and one that returns without
\* is followed by the next stage (the last one by the end of the run).
C1_EveryStageRoutesItsError ==
    [][(agent = "fastapi-app" /\ IsStage(node) /\ node' # node)
          => node' = IF has_error(state') THEN "handle_error" ELSE StageAfter(node)]_vars

\* C2: review_student never raises to its caller.
C2_ReviewStudentNeverRaises == result # Raised

\* C3: a run that enters the error state goes on to the end of the run and
\* gives back the zero-score response (average 0, no tasks, no details) for
\* the student and the lecture of the request; it neither raises nor stops
\* before it has returned.
C3_ErrorRunReturnsDegraded ==
    EnteredError =>
        /\ node \in {"handle_error", "END"}
        /\ result # Raised
        /\ result = NotCalled => ENABLED Next
        /\ result.kind = "returned" =>
               result.value = error_response(state.student_surname, state.lecture_number)

C3_Witness ==
    /\ InTrace("handle_error")
    /\ result.kind = "returned"
    /\ state.student_surname = "Ivanov"
    /\ state.lecture_number = 1

\* The write of the persist stage failed.
SaveFailed ==
    /\ InTrace("save_results")
    /\ state.error_message = "Error saving results"

\* C4: when the write of the persist stage fails the run goes to the error
\* state and what review_student returns is the zero-score response.
C4_FailedSaveGivesDegraded ==
    SaveFailed =>
        /\ EnteredError
        /\ result # Raised
        /\ result.kind = "returned" =>
               result.value = error_response(state.student_surname, state.lecture_number)

\* The Review Service failed for a call: it raised, or its reply was rejected.
Failed(call) ==
    \/ "raise" \in DOMAIN call.reply
    \/ "overall_score" \in DOMAIN call.reply /\ ~valid_review_criteria(call.reply)

\* The results of the review stage that belong to a call of the review chain.
ReviewedResults ==
    LET results == IF "task_results" \in DOMAIN state.review_result
                   THEN state.review_result.task_results
                   ELSE <<state.review_result>>
    IN  SelectSeq(results, LAMBDA r : "task" \in DOMAIN r)

\* The run had a review stage of its own state (the two graph agents).
HasReviewStage == InTrace("review_code")

\* C5: when the review of a task fails, the run does not enter the error
\* state; every task that has code is still reviewed, the failed task's
\* result and the TaskReview returned for it have score 0 and the failure
\* comment, and the other tasks keep the scores their reviews gave them.
C5_ReviewFailureIsContained ==
    (\E i \in 1..Len(calls) : Failed(calls[i])) =>
        /\ ~EnteredError
        /\ HasReviewStage =>
              /\ {calls[i].task : i \in 1..Len(calls)} = state.code_content
              /\ Len(ReviewedResults) = Len(calls)
              /\ \A i \in 1..Len(calls) :
                    /\ ReviewedResults[i].task = calls[i].task
                    /\ IF Failed(calls[i])
                       THEN /\ ReviewedResults[i].score = 0
                            /\ ReviewedResults[i].comments = "Error during review"
                       ELSE ReviewedResults[i].score = calls[i].reply.overall_score
        /\ (result.kind = "returned" /\ result.value.details # <<>>) =>
              \A i \in 1..Len(calls) :
                 \E k \in 1..Len(result.value.details) :
                    LET tr == result.value.details[k]
                    IN  /\ tr.task = calls[i].task
                        /\ IF Failed(calls[i])
                           THEN tr.score = 0 /\ tr.comments = "Error during review"
                           ELSE "overall_score" \in DOMAIN calls[i].reply
                                    => tr.score = calls[i].reply.overall_score

(***************************************************************************)
(* Properties of the result store (checked under StoreSpec).               *)
(***************************************************************************)
LastOp == ops[Len(ops)]
AfterUpsert == ops # <<>> /\ LastOp.op = "upsert"
AfterDedupe == ops # <<>> /\ LastOp.op = "dedupe"

\* The (student, task) key of a row, the task read as a string.
RowKey(row) == <<row.Surname, str(row.Task)>>
KeyRows(rows, key) == {i \in 1..Len(rows) : RowKey(rows[i]) = key}
RowsBefore == IF before.exists THEN before.rows ELSE <<>>

\* The TaskReview of a task that comes last in a details list.
LastReviewOf(details, task) ==
    details[CHOOSE i \in 1..Len(details) :
                /\ details[i].task = task
                /\ \A j \in (i + 1)..Len(details) : details[j].task # task]

\* The row carries the score, comments, four sub-scores and timestamp (to the
\* second) of the TaskReview.
Written(row, tr) ==
    /\ row.Score = tr.score
    /\ row.Comments = tr.comments
    /\ row.TechnicalCorrectness = tr.technical_correctness
    /\ row.CodeStyle = tr.code_style
    /\ row.Documentation = tr.documentation
    /\ row.Performance = tr.performance
    /\ row.ReviewDate = DateText(tr.review_timestamp.sec)

ScenarioC_First == [op |-> "upsert", arg |-> StoreResponse("Ivanov",
                       <<NewTaskReview("1", 70, [sec |-> 3, frac |-> 1])>>)]
ScenarioC_Second == [op |-> "upsert", arg |-> StoreResponse("Ivanov",
                        <<NewTaskReview("1", 85, [sec |-> 4, frac |-> 0])>>)]

C7_UpsertIsIdempotent ==
    (/\ Len(ops) >= 2
     /\ LastOp.op = "upsert"
     /\ ops[Len(ops) - 1] = LastOp)
    => store = before

C7_Witness ==
    /\ Len(ops) = 2
    /\ ops[1] = ops[2]
    /\ ops[2].op = "upsert"
    /\ Len(ops[2].arg.details) = 2
    /\ Len(store.rows) = 2
    /\ store = before

\* C8: after a dedupe no two rows of the store have the same (student, task)
\* key.
C8_DedupeLeavesUniqueKeys ==
    AfterDedupe =>
        \A i, j \in 1..Len(store.rows) :
            RowKey(store.rows[i]) = RowKey(store.rows[j]) => i = j

C8_Witness ==
    /\ AfterDedupe
    /\ before.exists
    /\ \E i, j \in 1..Len(before.rows) :
          i # j /\ RowKey(before.rows[i]) = RowKey(before.rows[j])
    /\ Len(store.rows) < Len(before.rows)

\* The row is the stored form of an earlier row: same key and values, same
\* moment.
SurvivorOf(row, earlier) ==
    /\ RowKey(row) = RowKey(earlier)
    /\ row.Lecture = earlier.Lecture
    /\ row.Score = earlier.Score
    /\ row.Comments = earlier.Comments
    /\ row.TechnicalCorrectness = earlier.TechnicalCorrectness
    /\ row.CodeStyle = earlier.CodeStyle
    /\ row.Documentation = earlier.Documentation
    /\ row.Performance = earlier.Performance
    /\ row.ReviewDate.sec = earlier.ReviewDate.sec

\* C9: of every key group a dedupe keeps one row, a row of the group whose
\* timestamp is the greatest of the group.  Two rows of Petrov's task 2 with
\* different timestamps leave the later one.
C9_DedupeKeepsLatest ==
    AfterDedupe =>
        /\ \A i \in 1..Len(RowsBefore) :
              KeyRows(store.rows, RowKey(RowsBefore[i])) # {}
        /\ \A k \in 1..Len(store.rows) :
              /\ \E i \in 1..Len(RowsBefore) : SurvivorOf(store.rows[k], RowsBefore[i])
              /\ \A i \in KeyRows(RowsBefore, RowKey(store.rows[k])) :
                    RowsBefore[i].ReviewDate.sec <= store.rows[k].ReviewDate.sec

C9_Witness ==
    /\ ops = <<[op |-> "dedupe"]>>
    /\ Len(before.rows) = 2
    /\ RowKey(before.rows[1]) = <<"Petrov", "2">>
    /\ RowKey(before.rows[2]) = <<"Petrov", "2">>
    /\ before.rows[1].ReviewDate.sec = 1
    /\ before.rows[2].ReviewDate.sec = 2
    /\ Len(store.rows) = 1
    /\ store.rows[1].ReviewDate.sec = 2
    /\ store.rows[1].Score = before.rows[2].Score

\* C10: a dedupe right after a dedupe changes nothing: same rows, same order.
C10_DedupeIsIdempotent ==
    (/\ Len(ops) >= 2
     /\ LastOp.op = "dedupe"
     /\ ops[Len(ops) - 1].op = "dedupe")
    => store = before

C10_Witness ==
    /\ ops = <<[op |-> "dedupe"], [op |-> "dedupe"]>>
    /\ Len(store.rows) = 2
    /\ store = before

(***************************************************************************)
(* Further properties of the single-student run (checked under Spec).      *)
(***************************************************************************)
RECURSIVE SumOfScores(_)
SumOfScores(details) ==
    IF details = <<>> THEN 0
    ELSE Head(details).score + SumOfScores(Tail(details))

\* C14: the average_score of a returned response is the arithmetic mean of the
\* scores of its details, and 0 when it has no details; details with scores
\* 80 and 60 give average 70 and total_tasks 2.
C14_AverageIsMeanOfScores ==
    result.kind = "returned" =>
        LET r == result.value
        IN  /\ IF r.details = <<>>
               THEN r.average_score.sum = 0
               ELSE r.average_score.sum * Len(r.details)
                        = SumOfScores(r.details) * r.average_score.n
            /\ (/\ Len(r.details) = 2
                /\ r.details[1].score = 80
                /\ r.details[2].score = 60)
               => /\ r.average_score.sum = 70 * r.average_score.n
                  /\ r.total_tasks = 2

C14_Witness ==
    /\ result.kind = "returned"
    /\ Len(result.value.details) = 2
    /\ result.value.details[1].score = 80
    /\ result.value.details[2].score = 60
    /\ result.value.average_score.sum = 70 * result.value.average_score.n
    /\ result.value.total_tasks = 2

\* The request names no student or a lecture below 1.
InvalidRequest == state.student_surname = "" \/ state.lecture_number < 1

\* C17: a run for an empty student identifier or a lecture number below 1
\* fails at the validate stage and goes to the error state; the fetch stage is
\* never executed for it.
C17_InvalidRequestStopsAtValidate ==
    InvalidRequest =>
        /\ ~InTrace("get_code")
        /\ trace # <<>> => (trace[1] = "validate_input" /\ EnteredError)

\* The student has no code for the task asked for, or for any task.
SubmissionIsEmpty ==
    IF state.task # None
    THEN env.repo[state.task] # "code"
    ELSE \A t \in TaskIds : env.repo[t] # "code"

\* C18: when the submission the fetch stage assembles is empty, the run fails
\* at fetch with an error message and goes to the error state; no later stage
\* runs.
C18_EmptySubmissionFailsAtFetch ==
    (agent \in {"fastapi-app", "fastapi_app"} /\ InTrace("get_code") /\ SubmissionIsEmpty) =>
        /\ has_error(state)
        /\ EnteredError
        /\ ~InTrace("analyze_code")
        /\ ~InTrace("review_code")
        /\ ~InTrace("save_results")

C18_Witness ==
    /\ agent = "fastapi-app"
    /\ SubmissionIsEmpty
    /\ trace = <<"validate_input", "get_code", "handle_error">>
    /\ state.error_message = "No code found for student"
    /\ result.kind = "returned"

\* The stages a graph has, in the order of its edges: the six of fastapi-app;
\* in fastapi_app fetch, analyze, review and a save node that scores and
\* persists.
GraphStages ==
    IF agent = "fastapi-app" THEN Stages
    ELSE <<"get_code", "analyze_code", "review_code", "save_results">>

StagesRun == SelectSeq(trace, LAMBDA n : n # "handle_error")

CallNeverReturns ==
    /\ result = NotCalled
    /\ \/ agent = "fastapi_app" /\ node = "get_code"
       \/ agent \in {"fastapi-app", "fastapi_app"} /\ node = "review_code"
    /\ node' = "awaiting_call"
    /\ trace' = Append(trace, node)
    /\ UNCHANGED <<agent, state, env, result, calls, store, before, ops>>

TimeoutNext ==
    \/ Next
    \/ CallNeverReturns

TimeoutSpec == Init /\ [][TimeoutNext]_vars

\* C16: a run that has not returned can always take a step, also when a call
\* of the Submission Provider or of the Review Service never returns: a
\* timeout ends the call and the run goes on to the error state.
C16_RunNeverHangs == result # NotCalled \/ ENABLED TimeoutNext

(***************************************************************************)
(* Two update_student_review calls for different students on the file of   *)
(* one lecture, each a load, a loop over the details and a save, with      *)
(* nothing that keeps one call out while the other is between its load and *)
(* its save (two requests served by threads or by two processes).          *)
(***************************************************************************)
Writers == {"first", "second"}

\* The student each call writes for.
WriterSurname(w) == IF w = "first" THEN "Ivanov" ELSE "Petrov"

RaceInit ==
    /\ agent = None
    /\ node = "END"
    /\ \E reviews \in [Writers -> NewTaskReviews] :
          state = [w \in Writers |->
                      [pc |-> "load",
                       df |-> <<>>,
                       review_response |-> StoreResponse(WriterSurname(w), <<reviews[w]>>)]]
    /\ env = Nothing
    /\ result = NotCalled
    /\ trace = <<>>
    /\ calls = <<>>
    /\ store \in SeedStores("fastapi-app")
    /\ before = store
    /\ ops = <<>>

\* pd.read_excel(excel_path), or the empty frame when there is no file.
LoadFile(w) ==
    /\ state[w].pc = "load"
    /\ state' = [state EXCEPT ![w].df = load_reviews(store), ![w].pc = "modify"]
    /\ UNCHANGED <<agent, node, env, result, trace, calls, store, before, ops>>

\* The loop over review_response.details on the frame that was loaded.
ModifyFrame(w) ==
    /\ state[w].pc = "modify"
    /\ state' = [state EXCEPT
                    ![w].df = upsert_details(state[w].df, state[w].review_response.surname,
                                             1, state[w].review_response.details),
                    ![w].pc = "save"]
    /\ UNCHANGED <<agent, node, env, result, trace, calls, store, before, ops>>

\* df.to_excel(...): the file becomes the frame of this call.
SaveFile(w) ==
    /\ state[w].pc = "save"
    /\ store' = [exists |-> TRUE, rows |-> state[w].df]
    /\ before' = store
    /\ ops' = Append(ops, [op |-> "upsert", arg |-> state[w].review_response])
    /\ state' = [state EXCEPT ![w].pc = "done"]
    /\ UNCHANGED <<agent, node, env, result, trace, calls>>

RaceNext == \E w \in Writers : LoadFile(w) \/ ModifyFrame(w) \/ SaveFile(w)

RaceSpec == RaceInit /\ [][RaceNext]_vars

\* C15: when two upserts for different students have both completed, however
\* their loads, loops and saves interleaved, the store holds the row of each.
C15_InterleavedUpsertsBothKept ==
    (\A w \in Writers : state[w].pc = "done") =>
        \A w \in Writers :
            \A i \in 1..Len(state[w].review_response.details) :
                KeyRows(store.rows,
                        <<WriterSurname(w), state[w].review_response.details[i].task>>) # {}

(***************************************************************************)
(* Lecture-wide review: review_student as one call.  While a lecture loop  *)
(* awaits a student's run, the whole run of that student happens; the      *)
(* operators below run the graphs above from their entry point to END.     *)
(***************************************************************************)
MaxStudents == 3

\* The usernames of a roster, in roster order.
StudentName(i) ==
    CASE i = 1 -> "Ivanov"
      [] i = 2 -> "Petrov"
      [] i = 3 -> "Sidorov"
      [] OTHER -> "Kuznetsov"

Roster(k) == [i \in 1..k |-> StudentName(i)]

\* What one student's run meets: the submissions of the student, and the
\* collaborator that raises during the run, if any.
AllCode == [t \in TaskIds |-> "code"]
NoCode == [t \in TaskIds |-> "no_code"]
Behaviours ==
    [repo : {AllCode, NoCode},
     raises : {None, "get_code", "analyze_code", "save_results"}]

\* The language model scores task 1 with 80 and task 2 with 60.
LectureReplies ==
    [t \in TaskIds |->
        CHOOSE r \in Replies :
            /\ "overall_score" \in DOMAIN r
            /\ r.overall_score = (IF t = "1" THEN 80 ELSE 60)]

\* The analyzer's summaries of a student's tasks.
LectureSummaries(b) ==
    [t \in TaskIds |->
        IF b.raises = "analyze_code" THEN [raise |-> TRUE]
        ELSE CHOOSE s \in Summaries :
                 /\ "average_complexity" \in DOMAIN s
                 /\ s.average_complexity = (IF t = "1" THEN 5 ELSE 60)]

\* One node of the fastapi-app graph on a run [state, file].
graph_work(n, run, b, now) ==
    LET st == run.state
    IN  CASE n = "validate_input" -> [run EXCEPT !.state = _validate_input(st)]
          [] n = "get_code" ->
                [run EXCEPT !.state = _get_student_code(st, b.repo, b.raises = "get_code")]
          [] n = "analyze_code" ->
                [run EXCEPT !.state = _analyze_code(st, b.raises = "analyze_code")]
          [] n = "review_code" ->
                [run EXCEPT !.state = _review_code(st, b.repo, LectureReplies, FALSE)]
          [] n = "calculate_score" -> [run EXCEPT !.state = _calculate_score(st, now)]
          [] n = "save_results" ->
                [state |-> _save_results(st, b.raises = "save_results"),
                 file |-> IF b.raises = "save_results" THEN run.file
                          ELSE update_student_review(run.file, st.lecture_number,
                                                     st.final_response)]
          [] n = "handle_error" -> [run EXCEPT !.state = _handle_error(st)]

\* self.workflow.ainvoke of fastapi-app from node n.
RECURSIVE ainvoke(_, _, _, _)
ainvoke(n, run, b, now) ==
    IF n = "END" THEN run
    ELSE LET after == graph_work(n, run, b, now)
         IN  ainvoke(next_node(n, after.state), after, b, now)

\* HomeworkReviewAgent.review_student of fastapi-app/agents/review_agent.py.
graph_review_student(surname, lecture_number, b, now, file) ==
    LET end == ainvoke("validate_input",
                       [state |-> initial_state(surname, lecture_number, None),
                        file |-> file], b, now)
    IN  [result |-> Returned(end.state.final_response), file |-> end.file]

\* One node of the fastapi_app graph on a run [state, file, raised].
cloud_work(n, run, b, now) ==
    LET st == run.state
        response == cloud_review_response_of(st, now)
        valid == /\ \A i \in 1..Len(response.details) :
                       valid_task_review(response.details[i])
                 /\ valid_review_response(response)
    IN  CASE n = "get_code" ->
                [run EXCEPT !.state = cloud_get_student_code(st, b.repo,
                                                             b.raises = "get_code")]
          [] n = "analyze_code" ->
                IF b.raises = "analyze_code" THEN [run EXCEPT !.raised = TRUE]
                ELSE [run EXCEPT !.state = cloud_analyze_code(st)]
          [] n = "review_code" ->
                [run EXCEPT !.state = cloud_review_code(st, LectureReplies)]
          [] n = "save_results" ->
                IF valid /\ b.raises # "save_results"
                THEN [state |-> [st EXCEPT !.final_response = response],
                      file |-> cloud_update_student_review(
                                   run.file, st.lecture_number, response,
                                   TRUE, run.file.exists),
                      raised |-> FALSE]
                ELSE [run EXCEPT !.raised = TRUE]
          [] n = "handle_error" -> [run EXCEPT !.state = _handle_error(st)]

\* self.workflow.ainvoke of fastapi_app from node n; a node that raises ends it.
RECURSIVE cloud_ainvoke(_, _, _, _)
cloud_ainvoke(n, run, b, now) ==
    IF n = "END" \/ run.raised THEN run
    ELSE LET after == cloud_work(n, run, b, now)
         IN  cloud_ainvoke(cloud_next_node(n, after.state), after, b, now)

\* HomeworkReviewAgent.review_student of fastapi_app/agents/review_agent.py.
cloud_review_student(username, lecture_number, b, now, file) ==
    LET end == cloud_ainvoke("get_code",
                             [state |-> initial_state(username, lecture_number, None),
                              file |-> file, raised |-> FALSE], b, now)
    IN  [result |-> IF end.raised THEN Raised ELSE Returned(end.state.final_response),
         file |-> end.file]

\* SimpleReviewAgent.review_student with no task named.
simple_review_student(surname, lecture_number, b, now, file) ==
    LET st == initial_state(surname, lecture_number, None)
        response == simple_response(st, b.repo, LectureSummaries(b), now)
        degraded == error_response(surname, lecture_number)
    IN  IF b.raises \in {"get_code", "save_results"}
        THEN [result |-> Returned(degraded), file |-> file]
        ELSE [result |-> Returned(response),
              file |-> update_student_review(file, lecture_number, response)]

\* The agent each lecture loop runs for a student.
student_run(a, student, lecture_number, b, now, file) ==
    CASE a \in {"simple_lecture", "api"} ->
            simple_review_student(student, lecture_number, b, now, file)
      [] a = "lecture_graph" ->
            graph_review_student(student, lecture_number, b, now, file)
      [] a \in {"cloud_api", "lambda"} ->
            cloud_review_student(student, lecture_number, b, now, file)

(***************************************************************************)
(* The lecture-wide runners: SimpleLectureReviewAgent.review_lecture, the  *)
(* LectureReviewAgent graph of fastapi-app/agents/review_agent.py, the     *)
(* POST /review/lecture handlers of both applications and the weekly       *)
(* lambda handler.  state is the lecture run: `students` the roster,       *)
(* `next` the next student of the loop, `running` the students whose       *)
(* review_student call has been entered and has not come back.             *)
(***************************************************************************)

\* The default of settings.max_concurrent_reviews.
DefaultMaxConcurrentReviews == 5

\* LectureReviewState(...) of review_lecture, with the loop's position.
lecture_state(lecture_number, students) ==
    [lecture_number |-> lecture_number,
     students |-> students,
     current_step |-> "start",
     error_message |-> None,
     student_results |-> <<>>,
     summary |-> None,
     final_response |-> Nothing,
     next |-> 1,
     running |-> {}]

LectureInit ==
    /\ agent \in {"simple_lecture", "lecture_graph", "api", "cloud_api", "lambda"}
    /\ \E lecture \in Lectures, students \in {Roster(k) : k \in 0..MaxStudents} :
          /\ agent \in {"api", "cloud_api", "lambda"} => lecture >= 1
          /\ state = lecture_state(lecture, students)
    /\ node = IF agent = "lecture_graph" THEN "validate_input" ELSE "review_lecture"
    /\ \E discovered \in {Roster(0), Roster(1)}, has_tasks \in BOOLEAN,
          limit \in {1, DefaultMaxConcurrentReviews} :
          /\ state.students # <<>> => discovered = Roster(0)
          /\ agent # "lecture_graph" => has_tasks
          /\ env = [now |-> [sec |-> 3, frac |-> 0],
                    discovered |-> discovered,
                    has_tasks |-> has_tasks,
                    max_concurrent_reviews |-> limit]
    /\ result = NotCalled
    /\ trace = <<>>
    /\ calls = <<>>
    /\ store = NoFile
    /\ before = store
    /\ ops = <<>>

\* `students or repo_service.get_all_students_in_lecture(lecture_number)`
students_or_discovered(st, discovered) ==
    IF st.students # <<>> THEN st.students ELSE discovered

\* sum(result.average_score for result in student_results)
RECURSIVE sum_average_scores(_)
sum_average_scores(student_results) ==
    IF student_results = <<>> THEN Zero
    ELSE LET x == Head(student_results).average_score
             y == sum_average_scores(Tail(student_results))
         IN  Fraction(x.sum * y.n + y.sum * x.n, x.n * y.n)

\* An average over the students that scored above zero only.
mean_average_score_of_scored(student_results) ==
    LET scored == SelectSeq(student_results, LAMBDA r : r.average_score.sum # 0)
        total == sum_average_scores(scored)
    IN  IF scored # <<>> THEN Fraction(total.sum, total.n * Len(scored)) ELSE Zero

\* sum(...) / len(student_results) if student_results else 0
mean_average_score(student_results) ==
    LET total == sum_average_scores(student_results)
    IN  IF student_results # <<>>
        THEN Fraction(total.sum, total.n * Len(student_results))
        ELSE Zero

\* The dictionary SimpleLectureReviewAgent.review_lecture returns.
simple_summary(lecture_number, student_results) ==
    [lecture_number |-> lecture_number,
     total_students |-> Len(student_results),
     average_score |-> mean_average_score(student_results),
     student_results |-> student_results]

\* LectureReviewResponse(...) of the handlers.
lecture_review_response(lecture_number, student_results) ==
    [lecture_number |-> lecture_number,
     total_students |-> Len(student_results),
     average_score |-> mean_average_score(student_results),
     student_results |-> student_results]

\* A loop that enters review_student for the next student without waiting.
may_start_without_waiting(st) == st.next <= Len(st.students)

\* `for student in students: ... await review_agent.review_student(...)`: the
\* next call is entered when the one before it has come back.
may_start(st) == st.next <= Len(st.students) /\ st.running = {}

\* What each loop appends when review_student came back with outcome r.
loop_append(a, student_results, student, r) ==
    CASE a \in {"simple_lecture", "api"} ->
            IF r = Raised THEN student_results
            ELSE Append(student_results, r.value)
      [] a = "lecture_graph" ->
            IF r = Raised
            THEN Append(student_results, [student |-> student, error |-> "raised"])
            ELSE Append(student_results, [student |-> student, result |-> r.value])
      [] a = "cloud_api" -> Append(student_results, r.value)
      [] a = "lambda" ->
            IF r = Raised
            THEN Append(student_results, [username |-> student, outcome |-> "ERROR"])
            ELSE Append(student_results, [username |-> student, outcome |-> "SUCCESS",
                                          average_score |-> r.value.average_score])

\* The edges of LectureReviewAgent._create_workflow.
lecture_next_node(n, st) ==
    CASE n = "validate_input" -> IF has_error(st) THEN "handle_error" ELSE "get_students"
      [] n = "get_students" -> IF has_error(st) THEN "handle_error" ELSE "get_tasks"
      [] n = "get_tasks" -> IF has_error(st) THEN "handle_error" ELSE "review_students"
      [] n = "review_students" -> IF has_error(st) THEN "handle_error" ELSE "generate_summary"
      [] n = "generate_summary" -> IF has_error(st) THEN "handle_error" ELSE "save_results"
      [] n = "save_results" -> "END"
      [] n = "handle_error" -> "END"

\* The runner returned or raised before or after its loop.
LectureEnds(r) ==
    /\ result' = r
    /\ node' = "END"
    /\ trace' = Append(trace, node)
    /\ UNCHANGED <<agent, state, env, calls, store, before, ops>>

\* The runner goes on to its loop with the roster it settled on.
LoopBegins(students) ==
    /\ state' = [state EXCEPT !.students = students]
    /\ node' = "review_students"
    /\ trace' = Append(trace, node)
    /\ UNCHANGED <<agent, env, result, calls, store, before, ops>>

\* SimpleLectureReviewAgent.review_lecture up to its loop.
SimpleLectureBegin ==
    /\ Running("simple_lecture", "review_lecture")
    /\ LET students_to_review == students_or_discovered(state, env.discovered)
       IN  IF students_to_review = <<>>
           THEN LectureEnds(Returned(simple_summary(state.lecture_number, <<>>)))
           ELSE LoopBegins(students_to_review)

\* POST /review/lecture of fastapi-app up to the loop of the lecture agent.
ApiBegin ==
    /\ Running("api", "review_lecture")
    /\ \E validation_issues \in BOOLEAN :
          LET students == students_or_discovered(state, env.discovered)
          IN  IF validation_issues \/ students = <<>>
              THEN LectureEnds(Raised)
              ELSE LoopBegins(students)

\* POST /review/lecture of fastapi_app up to its loop.
CloudApiBegin ==
    /\ Running("cloud_api", "review_lecture")
    /\ IF state.students = <<>>
       THEN LectureEnds(Raised)
       ELSE LoopBegins(state.students)

\* handler of lambda_handler.py up to its loop.
LambdaBegin ==
    /\ Running("lambda", "review_lecture")
    /\ IF state.students = <<>>
       THEN LectureEnds(Returned([statusCode |-> 200, body |-> "No students to review."]))
       ELSE LoopBegins(state.students)

\* A node of the LectureReviewAgent graph ran: its work function returned st.
LectureStep(n, st) ==
    /\ state' = st
    /\ node' = lecture_next_node(n, st)
    /\ trace' = Append(trace, n)
    /\ UNCHANGED <<agent, env, result, calls, store, before, ops>>

LectureValidateInput ==
    /\ Running("lecture_graph", "validate_input")
    /\ LectureStep("validate_input",
                   IF state.lecture_number < 1
                   THEN [state EXCEPT !.error_message = "Valid lecture number is required"]
                   ELSE [state EXCEPT !.current_step = "validation_complete"])

GetStudents ==
    /\ Running("lecture_graph", "get_students")
    /\ LET students == students_or_discovered(state, env.discovered)
       IN  LectureStep("get_students",
                       IF students = <<>>
                       THEN [state EXCEPT !.error_message = "No students found"]
                       ELSE [state EXCEPT !.students = students,
                                          !.current_step = "students_retrieved"])

GetTasks ==
    /\ Running("lecture_graph", "get_tasks")
    /\ LectureStep("get_tasks",
                   IF ~env.has_tasks
                   THEN [state EXCEPT !.error_message = "No tasks found"]
                   ELSE [state EXCEPT !.current_step = "tasks_retrieved"])

\* A loop enters review_student for its next student.
StartStudent ==
    /\ node = "review_students"
    /\ result = NotCalled
    /\ may_start(state)
    /\ state' = [state EXCEPT !.running = @ \cup {state.next}, !.next = @ + 1]
    /\ UNCHANGED <<agent, node, env, result, trace, calls, store, before, ops>>

\* review_student comes back to the loop that awaits it: the student's whole
\* run, and what the loop does with its outcome.  Only the loop of the
\* fastapi_app handler has no try block of its own: what review_student raises
\* there leaves the loop and the handler answers with HTTP 500.
FinishStudent ==
    /\ node = "review_students"
    /\ result = NotCalled
    /\ \E i \in state.running, b \in Behaviours :
          LET student == state.students[i]
              run == student_run(agent, student, state.lecture_number, b, env.now, store)
          IN  /\ calls' = Append(calls, [student |-> student, behaviour |-> b,
                                         result |-> run.result])
              /\ store' = run.file
              /\ IF agent = "cloud_api" /\ run.result = Raised
                 THEN /\ result' = Raised
                      /\ node' = "END"
                      /\ state' = [state EXCEPT !.running = @ \ {i}]
                 ELSE /\ state' = [state EXCEPT
                                      !.running = @ \ {i},
                                      !.student_results =
                                          loop_append(agent, @, student, run.result)]
                      /\ UNCHANGED <<node, result>>
    /\ before' = store
    /\ UNCHANGED <<agent, env, trace, ops>>

LoopIsOver == node = "review_students" /\ ~may_start(state) /\ state.running = {}

\* SimpleLectureReviewAgent.review_lecture after its loop.
SimpleLectureReturns ==
    /\ Running("simple_lecture", "review_students")
    /\ LoopIsOver
    /\ LectureEnds(Returned(simple_summary(state.lecture_number, state.student_results)))

\* POST /review/lecture of fastapi-app once review_lecture of the lecture
\* agent is back: the average over result["student_results"].
ApiReturns ==
    /\ Running("api", "review_students")
    /\ LoopIsOver
    /\ LET lecture_result == simple_summary(state.lecture_number, state.student_results)
       IN  LectureEnds(Returned(lecture_review_response(state.lecture_number,
                                                        lecture_result.student_results)))

\* POST /review/lecture of fastapi_app after its loop.
CloudApiReturns ==
    /\ Running("cloud_api", "review_students")
    /\ LoopIsOver
    /\ LectureEnds(Returned(lecture_review_response(state.lecture_number,
                                                    state.student_results)))

\* handler of lambda_handler.py after its loop: the e-mail and the answer.
LambdaReturns ==
    /\ Running("lambda", "review_students")
    /\ LoopIsOver
    /\ LectureEnds(Returned([statusCode |-> 200, body |-> "completed"]))

\* _review_students of the lecture graph returns after its loop.
ReviewStudents ==
    /\ Running("lecture_graph", "review_students")
    /\ LoopIsOver
    /\ LectureStep("review_students", [state EXCEPT !.current_step = "students_reviewed"])

GenerateSummary ==
    /\ Running("lecture_graph", "generate_summary")
    /\ LectureStep("generate_summary",
                   [state EXCEPT !.summary = "summary",
                                 !.current_step = "summary_generated"])

LectureSaveResults ==
    /\ Running("lecture_graph", "save_results")
    /\ LectureStep("save_results", [state EXCEPT !.current_step = "results_saved"])

LectureHandleError ==
    /\ Running("lecture_graph", "handle_error")
    /\ LectureStep("handle_error",
                   [state EXCEPT !.final_response =
                       [error |-> state.error_message,
                        lecture_number |-> state.lecture_number,
                        student_results |-> <<>>]])

\* review_lecture of the lecture graph: `return result.get("final_response", {})`;
\* the key is there from the initial state, with None unless handle_error ran.
ReviewLectureReturns ==
    /\ Running("lecture_graph", "END")
    /\ result' = Returned(state.final_response)
    /\ UNCHANGED <<agent, node, state, env, trace, calls, store, before, ops>>

LectureNext ==
    \/ SimpleLectureBegin
    \/ ApiBegin
    \/ CloudApiBegin
    \/ LambdaBegin
    \/ LectureValidateInput
    \/ GetStudents
    \/ GetTasks
    \/ StartStudent
    \/ FinishStudent
    \/ SimpleLectureReturns
    \/ ApiReturns
    \/ CloudApiReturns
    \/ LambdaReturns
    \/ ReviewStudents
    \/ GenerateSummary
    \/ LectureSaveResults
    \/ LectureHandleError
    \/ ReviewLectureReturns

LectureSpec == LectureInit /\ [][LectureNext]_vars

(***************************************************************************)
(* Properties of the lecture-wide review (checked under LectureSpec).      *)
(***************************************************************************)
\* The loop has run review_student for every student of the roster.
RosterReviewed == calls # <<>> /\ Len(calls) = Len(state.students)

\* C11: when review_lecture of a lecture agent returns after its loop went
\* through the roster, the summary it returns has exactly one entry per roster
\* student, in roster order, and a student without submissions is there with
\* average_score 0 and total_tasks 0.
C11_OneEntryPerRosterStudent ==
    (/\ agent \in {"simple_lecture", "lecture_graph"}
     /\ result.kind = "returned"
     /\ RosterReviewed) =>
        /\ "student_results" \in DOMAIN result.value
        /\ Len(result.value.student_results) = Len(state.students)
        /\ \A i \in 1..Len(state.students) :
              LET entry == result.value.student_results[i]
              IN  /\ "surname" \in DOMAIN entry
                  /\ entry.surname = state.students[i]
                  /\ calls[i].behaviour.repo = NoCode =>
                        /\ entry.average_score.sum = 0
                        /\ entry.total_tasks = 0

\* The product of the denominators of the entries' averages.
RECURSIVE ProductOfDenominators(_)
ProductOfDenominators(rs) ==
    IF rs = <<>> THEN 1
    ELSE Head(rs).average_score.n * ProductOfDenominators(Tail(rs))

\* The sum of the entries' averages, as a numerator over the denominator p.
RECURSIVE NumeratorOver(_, _)
NumeratorOver(rs, p) ==
    IF rs = <<>> THEN 0
    ELSE Head(rs).average_score.sum * (p \div Head(rs).average_score.n)
         + NumeratorOver(Tail(rs), p)

\* C12: the average_score of a lecture summary is the arithmetic mean of the
\* average_score of all its student entries, the zero ones included (0 when
\* there is no entry).
C12_LectureAverageIsMeanOfStudentAverages ==
    (/\ agent \in {"simple_lecture", "api", "cloud_api"}
     /\ result.kind = "returned") =>
        LET rs == result.value.student_results
            avg == result.value.average_score
            p == ProductOfDenominators(rs)
        IN  IF rs = <<>> THEN avg.sum = 0
            ELSE avg.sum * (p * Len(rs)) = NumeratorOver(rs, p) * avg.n

\* Three students, one of them without submissions: the summary has the three
\* entries, one of them zero, and its average is above zero.
C12_Witness ==
    /\ agent = "simple_lecture"
    /\ result.kind = "returned"
    /\ Len(result.value.student_results) = 3
    /\ \E i, j \in 1..3 :
          /\ result.value.student_results[i].average_score.sum = 0
          /\ calls[i].behaviour.repo = NoCode
          /\ result.value.student_results[j].average_score.sum > 0
    /\ result.value.average_score.sum > 0

\* C13: once a student's run has been made, the lecture-wide run ends with a
\* result and has made the run of every student of the roster, whatever the
\* outcome of each run.
C13_FailedStudentDoesNotAbortLecture ==
    (/\ agent \in {"cloud_api", "simple_lecture", "lambda"}
     /\ result # NotCalled
     /\ calls # <<>>) =>
        /\ result.kind = "returned"
        /\ Len(calls) = Len(state.students)

\* C20: at every moment of a lecture-wide review the number of student runs
\* in progress is at most settings.max_concurrent_reviews.
C20_RunsInProgressWithinLimit ==
    Cardinality(state.running) <= env.max_concurrent_reviews

\* A student's run is in progress under a limit of one while other students
\* of the roster wait for theirs.
C20_Witness ==
    /\ agent \in {"simple_lecture", "cloud_api"}
    /\ node = "review_students"
    /\ env.max_concurrent_reviews = 1
    /\ Cardinality(state.running) = 1
    /\ state.next <= Len(state.students)

(***************************************************************************)
(* Scores of the review service and of the analyzer (checked under Spec).  *)
(***************************************************************************)
\* The details of the response a run returned, none when it returned none.
ReturnedDetails ==
    IF result.kind = "returned" /\ "details" \in DOMAIN result.value
    THEN result.value.details
    ELSE <<>>

\* C21: every integer field the review service returned for a task is used
\* clamped into [0,100]: the TaskReview of that task carries min(100, max(0, v))
\* for the overall score and for each of the four sub-scores.
C21_ReturnedScoresAreClamped ==
    \A i \in 1..Len(calls), j \in 1..Len(ReturnedDetails) :
        (/\ "overall_score" \in DOMAIN calls[i].reply
         /\ ReturnedDetails[j].task = calls[i].task) =>
            /\ ReturnedDetails[j].score = clamp(calls[i].reply.overall_score)
            /\ ReturnedDetails[j].technical_correctness
                  = clamp(calls[i].reply.technical_correctness)
            /\ ReturnedDetails[j].code_style = clamp(calls[i].reply.code_style)
            /\ ReturnedDetails[j].documentation = clamp(calls[i].reply.documentation)
            /\ ReturnedDetails[j].performance = clamp(calls[i].reply.performance)

\* C22: every TaskReview of a returned response and every row of the store has
\* a score and four sub-scores in [0,100], whatever the review service or the
\* analyzer gave.
C22_ScoresAlwaysInRange ==
    /\ \A j \in 1..Len(ReturnedDetails) :
          /\ ReturnedDetails[j].score \in 0..100
          /\ ReturnedDetails[j].technical_correctness \in 0..100
          /\ ReturnedDetails[j].code_style \in 0..100
          /\ ReturnedDetails[j].documentation \in 0..100
          /\ ReturnedDetails[j].performance \in 0..100
    /\ \A k \in 1..Len(store.rows) :
          /\ store.rows[k].Score \in 0..100
          /\ store.rows[k].TechnicalCorrectness \in 0..100
          /\ store.rows[k].CodeStyle \in 0..100
          /\ store.rows[k].Documentation \in 0..100
          /\ store.rows[k].Performance \in 0..100

\* The review service answered a task with a score of 150 and a sub-score of
\* -5, and the run returned a TaskReview for that task and wrote its row.
C22_Witness ==
    /\ \E i \in 1..Len(calls), j \in 1..Len(ReturnedDetails) :
          /\ "overall_score" \in DOMAIN calls[i].reply
          /\ calls[i].reply.overall_score > 100
          /\ calls[i].reply.performance < 0
          /\ ReturnedDetails[j].task = calls[i].task
    /\ ops # <<>>

(***************************************************************************)
(* The frame of a run's write to the store (checked under Spec).           *)
(***************************************************************************)
\* The row has the (student, task) key of a TaskReview of the last write.
KeyWasWritten(row) ==
    /\ ops # <<>>
    /\ row.Surname = LastOp.arg.surname
    /\ \E j \in 1..Len(LastOp.arg.details) : LastOp.arg.details[j].task = str(row.Task)

\* C23: a run's write removes no row and changes no row of another key: every
\* row that was in the store before the write, and whose (student, task) key
\* is not a key being written, is in the store, unchanged, after it.
C23_WriteKeepsRowsOfOtherKeys ==
    \A i \in 1..Len(RowsBefore) :
        ~KeyWasWritten(RowsBefore[i]) =>
            \E k \in 1..Len(store.rows) : store.rows[k] = RowsBefore[i]


(***************************************************************************)
(* The analyze and review stages (checked under Spec).                     *)
(***************************************************************************)
\* C24: the analyze stage never sends the run to the error state and never
\* raises: whatever the analyzer did, the stage that follows analyze_code is
\* review_code.
C24_AnalyzeNeverFailsTheRun ==
    \A k \in 1..Len(trace) :
        trace[k] = "analyze_code" =>
            /\ result # Raised
            /\ IF k < Len(trace) THEN trace[k + 1] = "review_code"
               ELSE node = "review_code"

\* The identifier a TaskReview carries for task t of the lecture.
TaskIdentifier(t) == IF agent = "fastapi_app" THEN task_folder(t) ELSE t

\* C30: in whole-lecture mode a run whose review stage ran and that went on
\* without error returns exactly one TaskReview for each task the student has
\* code for, carrying that task's identifier, and no TaskReview for any other
\* task.
C30_OneTaskReviewPerTaskWithCode ==
    (/\ state.task = None
     /\ result.kind = "returned"
     /\ InTrace("review_code")
     /\ ~EnteredError) =>
        /\ \A t \in TaskIds :
              env.repo[t] = "code" =>
                  Cardinality({j \in 1..Len(ReturnedDetails) :
                                  ReturnedDetails[j].task = TaskIdentifier(t)}) = 1
        /\ \A j \in 1..Len(ReturnedDetails) :
              \E t \in TaskIds :
                  /\ env.repo[t] = "code"
                  /\ ReturnedDetails[j].task = TaskIdentifier(t)

(***************************************************************************)
(* Reading the result store: ExcelService.get_student_reviews of the two   *)
(* applications.  `state` is the request (the surname asked for, None for  *)
(* all students), `result` the rows that come back.                        *)
(***************************************************************************)
\* fastapi-app: the empty frame when the file is missing, else the rows of
\* the sheet, filtered by surname when one is given (`if surname:`).
get_student_reviews(file, surname) ==
    IF ~file.exists THEN <<>>
    ELSE IF surname \notin {None, ""}
         THEN SelectSeq(load_reviews(file), LAMBDA row : row.Surname = surname)
         ELSE load_reviews(file)

\* fastapi_app: the same over the bucket; the empty frame without a bucket
\* name, without the blob, and on any exception of the download or the read.
cloud_get_student_reviews(file, username, bucket_name, downloaded) ==
    IF ~bucket_name THEN <<>>
    ELSE IF ~file.exists THEN <<>>
    ELSE IF ~downloaded THEN <<>>
    ELSE IF username \notin {None, ""}
         THEN SelectSeq(load_reviews(file), LAMBDA row : row.Surname = username)
         ELSE load_reviews(file)

ReadInit ==
    /\ agent \in {"fastapi-app", "fastapi_app"}
    /\ node = "get_student_reviews"
    /\ state \in [surname : Students \cup {None, ""}]
    /\ env \in [bucket_name : BOOLEAN]
    /\ agent # "fastapi_app" => env.bucket_name
    /\ result = NotCalled
    /\ trace = <<>>
    /\ calls = <<>>
    /\ store \in Stores
    /\ before = store
    /\ ops = <<>>

GetStudentReviews ==
    /\ node = "get_student_reviews"
    /\ result = NotCalled
    /\ \E download_ok \in BOOLEAN :
          result' = Returned(
              IF agent = "fastapi-app"
              THEN get_student_reviews(store, state.surname)
              ELSE cloud_get_student_reviews(store, state.surname,
                                             env.bucket_name, download_ok))
    /\ UNCHANGED <<agent, node, state, env, trace, calls, store, before, ops>>

ReadSpec == ReadInit /\ [][GetStudentReviews]_vars

\* C26: a read raises nothing and returns no rows when no store exists; when
\* the store exists it returns all rows of the store, or, when a student is
\* given, exactly the rows of that student.
C26_ReadReturnsTheRowsOfTheStore ==
    result # NotCalled =>
        /\ result.kind = "returned"
        /\ result.value =
              IF ~(store.exists /\ env.bucket_name) THEN <<>>
              ELSE IF state.surname \in Students
                   THEN SelectSeq(store.rows, LAMBDA row : row.Surname = state.surname)
                   ELSE store.rows

(***************************************************************************)
(* CodeAnalysisService (fastapi-app/app/services/code_analysis.py).        *)
(*                                                                         *)
(* A file is its suffix and its content.  Of the content the analyzers     *)
(* read: the lines, each by what its stripped text starts with ("" a blank *)
(* line, "#" and "//" the comment markers, "code" anything else); what     *)
(* ast.parse(content) does ("tree", or the exception it raises); the       *)
(* nodes ast.walk yields of the tree, each with its type, whether          *)
(* ast.get_docstring finds a docstring and whether its name passes the     *)
(* convention predicate of its type ("If" stands for the branching nodes  *)
(* If, While, For and AsyncFor; a BoolOp has the number of its values);    *)
(* and the numbers of matches of the function and class patterns of the    *)
(* JavaScript analyzer.  Of the five language analyzers the Python and the *)
(* JavaScript one are modelled; of the comment markers of the generic      *)
(* analyzer, "#" and "//".                                                 *)
(***************************************************************************)
MaxLines == 2
MaxNodes == 2

\* len([... for line in lines if ...]) over the kinds of the lines.
lines_in(content, kinds) ==
    Len(SelectSeq(content.lines, LAMBDA line : line \in kinds))

\* len([node for node in ast.walk(tree) if isinstance(node, types)])
nodes_of(tree, types) == SelectSeq(tree, LAMBDA n : n.type \in types)

_analyze_generic(content) ==
    [lines_of_code |-> lines_in(content, {"code", "#", "//"}),
     lines_of_comments |-> lines_in(content, {"#", "//"}),
     functions_count |-> 0,
     classes_count |-> 0,
     complexity_score |-> 0,
     docstring_coverage |-> Zero,
     naming_convention_score |-> Zero]

\* A boolean expression adds one, whatever the number of its values.
_calculate_python_complexity_of_nodes(tree) ==
    1 + Len(nodes_of(tree, {"If", "ExceptHandler", "BoolOp"}))

\* Base complexity 1; one for every branching node and every exception
\* handler; len(node.values) - 1 for every boolean expression.
_calculate_python_complexity(tree) ==
    LET RECURSIVE walk(_)
        walk(k) ==
            IF k = 0 THEN 1
            ELSE walk(k - 1)
                 + (CASE tree[k].type = "If" -> 1
                      [] tree[k].type = "ExceptHandler" -> 1
                      [] tree[k].type = "BoolOp" -> tree[k].values - 1
                      [] OTHER -> 0)
    IN  walk(Len(tree))

\* Every function has its docstring, whatever its kind; only the plain ones
\* are counted as functions.
_calculate_docstring_coverage_of_plain_functions(tree) ==
    LET total_functions == Len(nodes_of(tree, {"FunctionDef"}))
        functions_with_docstrings ==
            Len(SelectSeq(nodes_of(tree, {"FunctionDef", "AsyncFunctionDef"}),
                          LAMBDA n : n.docstring))
    IN  IF total_functions = 0 THEN Zero
        ELSE Fraction(functions_with_docstrings * 100, total_functions)

\* (functions_with_docstrings / total_functions) * 100, kept as the fraction.
_calculate_docstring_coverage(tree) ==
    LET functions == nodes_of(tree, {"FunctionDef", "AsyncFunctionDef"})
        total_functions == Len(functions)
        functions_with_docstrings == Len(SelectSeq(functions, LAMBDA n : n.docstring))
    IN  IF total_functions = 0 THEN Zero
        ELSE Fraction(functions_with_docstrings * 100, total_functions)

\* Only the names of function definitions are looked at.
_calculate_python_naming_convention_of_functions(tree) ==
    LET names == nodes_of(tree, {"FunctionDef"})
        total_names == Len(names)
        correct_names == Len(SelectSeq(names, LAMBDA n : n.valid))
    IN  IF total_names = 0 THEN Zero
        ELSE Fraction(correct_names * 100, total_names)

\* (correct_names / total_names) * 100 over the Name nodes, the function
\* definitions and the class definitions of the tree.
_calculate_python_naming_convention(tree) ==
    LET names == nodes_of(tree, {"Name", "FunctionDef", "ClassDef"})
        total_names == Len(names)
        correct_names == Len(SelectSeq(names, LAMBDA n : n.valid))
    IN  IF total_names = 0 THEN Zero
        ELSE Fraction(correct_names * 100, total_names)

\* `except SyntaxError` takes the generic analyzer; any other exception of
\* ast.parse leaves the analyzer.
_analyze_python(content) ==
    IF content.parse = "SyntaxError" THEN _analyze_generic(content)
    ELSE IF content.parse # "tree" THEN Raised
    ELSE [lines_of_code |-> lines_in(content, {"code", "//"}),
          lines_of_comments |-> lines_in(content, {"#"}),
          functions_count |-> Len(nodes_of(content.tree, {"FunctionDef"})),
          classes_count |-> Len(nodes_of(content.tree, {"ClassDef"})),
          complexity_score |-> _calculate_python_complexity(content.tree),
          docstring_coverage |-> _calculate_docstring_coverage(content.tree),
          naming_convention_score |-> _calculate_python_naming_convention(content.tree)]

_analyze_javascript(content) ==
    [lines_of_code |-> lines_in(content, {"code", "#"}),
     lines_of_comments |-> lines_in(content, {"//"}),
     functions_count |-> content.functions,
     classes_count |-> content.classes,
     complexity_score |-> 0,
     docstring_coverage |-> Zero,
     naming_convention_score |-> Zero]

analyze_code_file(file) ==
    CASE file.suffix = ".py" -> _analyze_python(file.content)
      [] file.suffix = ".js" -> _analyze_javascript(file.content)
      [] OTHER -> _analyze_generic(file.content)


\* An average that is 1 when there is no file.
average_from_one(total, file_count) ==
    IF file_count > 0 THEN Fraction(total.sum, total.n * file_count)
    ELSE Fraction(1, 1)

\* The total itself, not divided by the number of files.
total_over_files(total, file_count) ==
    IF file_count > 0 THEN total ELSE Zero

\* total / file_count if file_count > 0 else 0
average_over_files(total, file_count) ==
    IF file_count > 0 THEN Fraction(total.sum, total.n * file_count)
    ELSE Zero

\* CodeAnalysisService.get_code_summary over the files of a submission, in
\* full: the metrics of every file, the sums of the counts and the three
\* averages.  An exception of an analyzer leaves the call.
get_code_summary_of(code_files) ==
    LET file_count == Len(code_files)
        file_metrics == [i \in 1..file_count |-> analyze_code_file(code_files[i])]
        RECURSIVE sum(_, _)
        sum(field, k) ==
            IF k = 0 THEN Zero
            ELSE LET x == sum(field, k - 1)
                     v == file_metrics[k][field]
                     y == IF field \in {"docstring_coverage", "naming_convention_score"}
                          THEN v ELSE Fraction(v, 1)
                 IN  Fraction(x.sum * y.n + y.sum * x.n, x.n * y.n)
        total(field) == sum(field, file_count)
    IN  IF \E i \in 1..file_count : file_metrics[i] = Raised THEN Raised
        ELSE Returned(
            [total_files |-> file_count,
             total_lines_of_code |-> total("lines_of_code").sum,
             total_lines_of_comments |-> total("lines_of_comments").sum,
             total_functions |-> total("functions_count").sum,
             total_classes |-> total("classes_count").sum,
             average_complexity |->
                 average_over_files(total("complexity_score"), file_count),
             average_docstring_coverage |->
                 average_over_files(total("docstring_coverage"), file_count),
             average_naming_convention_score |->
                 average_over_files(total("naming_convention_score"), file_count),
             file_metrics |-> file_metrics])

\* The submissions the summary is asked for: no file, any one file of up to
\* MaxLines lines and MaxNodes nodes, or such a file and a second one.
AnalysisInit ==
    /\ agent = None
    /\ node = "get_code_summary"
    /\ LET Lines == SeqsUpTo({"", "code", "#", "//"}, MaxLines)
           Nodes ==
               [type : {"FunctionDef"}, docstring : BOOLEAN, valid : BOOLEAN,
                values : {0}]
               \cup [type : {"AsyncFunctionDef"}, docstring : BOOLEAN, valid : {TRUE},
                      values : {0}]
               \cup [type : {"ClassDef", "Name"}, docstring : {FALSE}, valid : BOOLEAN,
                      values : {0}]
               \cup [type : {"If", "ExceptHandler"}, docstring : {FALSE},
                      valid : {TRUE}, values : {0}]
               \cup [type : {"BoolOp"}, docstring : {FALSE}, valid : {TRUE},
                      values : {2, 3}]
           HasLine(lines, kinds) == \E k \in 1..Len(lines) : lines[k] \in kinds
           Parsed ==
               {c \in [lines : Lines, parse : {"tree"},
                       tree : SeqsUpTo(Nodes, MaxNodes),
                       functions : {0}, classes : {0}] :
                   /\ ~HasLine(c.lines, {"//"})
                   /\ c.tree # <<>> => HasLine(c.lines, {"code"})}
           Unparsed ==
               {c \in [lines : Lines, parse : {"SyntaxError", "MemoryError"},
                       tree : {<<>>}, functions : 0..1, classes : 0..1] :
                   /\ HasLine(c.lines, {"code", "//"})
                   /\ c.functions + c.classes > 0 => HasLine(c.lines, {"code"})}
           Files ==
               [suffix : {".py"}, content : Parsed \cup Unparsed]
               \cup [suffix : {".js", ".txt"},
                     content : {c \in Unparsed : c.parse = "SyntaxError"}]
           Second ==
               {f \in Files :
                   /\ f.suffix \in {".py", ".txt"}
                   /\ f.content.lines = <<"code">>
                   /\ f.content.parse = (IF f.suffix = ".py" THEN "tree" ELSE "SyntaxError")
                   /\ f.content.functions + f.content.classes = 0
                   /\ f.content.tree =
                         IF f.suffix = ".py"
                         THEN <<[type |-> "FunctionDef", docstring |-> TRUE,
                                 valid |-> TRUE, values |-> 0]>>
                         ELSE <<>>}
       IN  state \in [code_files : {<<>>} \cup {<<f>> : f \in Files}
                                   \cup {<<f, g>> : f \in Files, g \in Second}]
    /\ env = Nothing
    /\ result = NotCalled
    /\ trace = <<>>
    /\ calls = <<>>
    /\ store = NoFile
    /\ before = NoFile
    /\ ops = <<>>

GetCodeSummary ==
    /\ node = "get_code_summary"
    /\ result = NotCalled
    /\ result' = get_code_summary_of(state.code_files)
    /\ UNCHANGED <<agent, node, state, env, trace, calls, store, before, ops>>

AnalysisSpec == AnalysisInit /\ [][GetCodeSummary]_vars


(***************************************************************************)
(* Properties of the analyzer (checked under AnalysisSpec).                *)
(***************************************************************************)
\* The number of non-blank lines of a content.
NonBlankLines(content) ==
    Cardinality({k \in 1..Len(content.lines) : content.lines[k] # ""})

\* The positions of the nodes of the given types in the tree of a content.
NodesAt(content, types) ==
    {k \in 1..Len(content.tree) : content.tree[k].type \in types}

\* C25: the analysis of a .py file whose content fails to parse does not
\* raise; it gives exactly the generic analyzer's metrics of that content
\* (the non-blank lines, the lines that start with a comment marker, zeros
\* elsewhere), the metrics the same content gets under an unknown extension.
C25_UnparsedPythonGetsGenericMetrics ==
    result # NotCalled =>
        \A i \in 1..Len(state.code_files) :
            LET file == state.code_files[i]
            IN  (file.suffix = ".py" /\ file.content.parse # "tree") =>
                    /\ result.kind = "returned"
                    /\ result.value.file_metrics[i] =
                          [lines_of_code |-> NonBlankLines(file.content),
                           lines_of_comments |->
                               Cardinality({k \in 1..Len(file.content.lines) :
                                               file.content.lines[k] \in {"#", "//"}}),
                           functions_count |-> 0,
                           classes_count |-> 0,
                           complexity_score |-> 0,
                           docstring_coverage |-> Zero,
                           naming_convention_score |-> Zero]
                    /\ result.value.file_metrics[i] =
                          analyze_code_file([file EXCEPT !.suffix = ".txt"])

\* C27: the summary of a submission of no files raises nothing, and its
\* counts and its three averages are all 0.
C27_EmptySubmissionSummaryIsZero ==
    (result # NotCalled /\ state.code_files = <<>>) =>
        /\ result.kind = "returned"
        /\ result.value.total_files = 0
        /\ result.value.total_lines_of_code = 0
        /\ result.value.total_lines_of_comments = 0
        /\ result.value.total_functions = 0
        /\ result.value.total_classes = 0
        /\ result.value.average_complexity.sum = 0
        /\ result.value.average_docstring_coverage.sum = 0
        /\ result.value.average_naming_convention_score.sum = 0

C27_Witness ==
    /\ result.kind = "returned"
    /\ state.code_files = <<>>
    /\ result.value.file_metrics = <<>>

\* C28: the docstring coverage of a file is in [0,100]; for a parsed Python
\* file it is (functions with a docstring / functions) x 100, and 0 when the
\* file defines no function.
C28_DocstringCoverageIsShareOfDocumented ==
    result.kind = "returned" =>
        \A i \in 1..Len(state.code_files) :
            LET file == state.code_files[i]
                coverage == result.value.file_metrics[i].docstring_coverage
                Functions == NodesAt(file.content, {"FunctionDef", "AsyncFunctionDef"})
                Documented == {k \in Functions : file.content.tree[k].docstring}
            IN  /\ coverage.sum >= 0
                /\ coverage.sum <= 100 * coverage.n
                /\ (file.suffix = ".py" /\ file.content.parse = "tree") =>
                      IF Functions = {} THEN coverage.sum = 0
                      ELSE coverage.sum * Cardinality(Functions)
                              = Cardinality(Documented) * 100 * coverage.n

\* A parsed Python file of two functions, an async one among them, of which
\* one has a docstring.
C28_Witness ==
    /\ result.kind = "returned"
    /\ \E i \in 1..Len(state.code_files) :
          LET content == state.code_files[i].content
          IN  /\ state.code_files[i].suffix = ".py"
              /\ content.parse = "tree"
              /\ NodesAt(content, {"AsyncFunctionDef"}) # {}
              /\ Cardinality(NodesAt(content, {"FunctionDef", "AsyncFunctionDef"})) = 2
              /\ Cardinality({k \in 1..Len(content.tree) : content.tree[k].docstring}) = 1
              /\ result.value.file_metrics[i].docstring_coverage = Fraction(100, 2)

\* A submission of one file that defines no function and has no comment line.
OneFileNoFunctionsNoComments ==
    /\ Len(state.code_files) = 1
    /\ LET content == state.code_files[1].content
       IN  /\ \A k \in 1..Len(content.lines) : content.lines[k] \in {"", "code"}
           /\ NodesAt(content, {"FunctionDef", "AsyncFunctionDef"}) = {}
           /\ content.functions = 0

C31_ReturnedReviewsAreStored ==
    (result.kind = "returned" /\ ~EnteredError) =>
        \A j \in 1..Len(result.value.details) :
            \E k \in 1..Len(store.rows) :
                /\ RowKey(store.rows[k])
                      = <<result.value.surname, result.value.details[j].task>>
                /\ Written(store.rows[k], result.value.details[j])

(***************************************************************************)
(* Keys of the store under a sequence of writes (checked under StoreSpec). *)
(***************************************************************************)
\* No two rows of the frame have the same (student, task) key.
OneRowPerKey(rows) ==
    \A i, j \in 1..Len(rows) : RowKey(rows[i]) = RowKey(rows[j]) => i = j

\* C32: a store that starts empty or absent holds at most one row per
\* (student, task) key, the task compared as a string, after any sequence of
\* upserts: the empty store has no two rows of a key, and an upsert into a
\* store with at most one row per key leaves at most one row per key, also
\* when the student was written before and when the details name a task twice.
C32_UpsertsKeepOneRowPerKey ==
    (AfterUpsert /\ OneRowPerKey(RowsBefore)) => OneRowPerKey(store.rows)

\* Two upserts in a row for Ivanov into a store that was empty, the second
\* naming task 1 twice: one row.
C32_Witness ==
    /\ Len(ops) = 2
    /\ ops[1].op = "upsert" /\ ops[1].arg.surname = "Ivanov"
    /\ ops[2].op = "upsert" /\ ops[2].arg.surname = "Ivanov"
    /\ Len(ops[2].arg.details) = 2
    /\ ops[2].arg.details[1].task = "1"
    /\ ops[2].arg.details[2].task = "1"
    /\ Len(store.rows) = 1
    /\ RowKey(store.rows[1]) = <<"Ivanov", "1">>

(***************************************************************************)
(* Fail-fast runs (checked under Spec).                                    *)
(***************************************************************************)
\* The stage whose work function writes the error message.
StageOfError(message) ==
    CASE message \in {"Student surname is required",
                      "Valid lecture number is required"} -> "validate_input"
      [] message \in {"Error retrieving code",
                      "No code found for student"} -> "get_code"
      [] message = "Error analyzing code" -> "analyze_code"
      [] message = "Error reviewing code" -> "review_code"
      [] message = "Error calculating score" -> "calculate_score"
      [] message = "Error saving results" -> "save_results"
      [] OTHER -> "none"

\* C33: the run is fail-fast.  Once a stage has recorded an error, the stage
\* that recorded it is the last stage of the run whose work function ran, and
\* only the error state or the end of the run follows; a run that failed at
\* validate or at fetch has made no call of the review service and no write
\* to the store.  The one-method agent that finds no code for the task asked
\* for returns without a review and without a write.
C33_RunIsFailFast ==
    /\ (agent \in {"fastapi-app", "fastapi_app"} /\ has_error(state)) =>
          /\ node \in {"handle_error", "END"}
          /\ StagesRun # <<>>
          /\ StagesRun[Len(StagesRun)] = StageOfError(state.error_message)
          /\ StageOfError(state.error_message) \in {"validate_input", "get_code"} =>
                /\ calls = <<>>
                /\ ops = <<>>
                /\ store = before
    /\ (agent = "simple" /\ result.kind = "returned"
            /\ state.task # None /\ SubmissionIsEmpty) =>
          /\ calls = <<>>
          /\ ops = <<>>
          /\ store = before

\* A run of the six-stage workflow that found no code at fetch, went through
\* the error state and returned.
C33_Witness ==
    /\ agent = "fastapi-app"
    /\ state.error_message = "No code found for student"
    /\ trace = <<"validate_input", "get_code", "handle_error">>
    /\ result.kind = "returned"
    /\ calls = <<>>
    /\ ops = <<>>

(***************************************************************************)
(* The store after a failed run, and the task count of a response          *)
(* (checked under Spec).                                                   *)
(***************************************************************************)
\* review_student returned the zero-score response.
ReturnedDegraded ==
    /\ result.kind = "returned"
    /\ result.value.average_score.sum = 0
    /\ result.value.total_tasks = 0
    /\ result.value.details = <<>>

\* C34: whenever review_student returns the degraded outcome (average 0, no
\* tasks, no details) the rows of the store are the rows it had before the
\* run: none added, none overwritten, none removed.
C34_DegradedRunLeavesRows ==
    ReturnedDegraded => load_reviews(store) = RowsBefore

\* A whole-lecture run for Ivanov whose review stage failed, over a store
\* that holds an earlier review of Ivanov.
C34_Witness ==
    /\ ReturnedDegraded
    /\ agent = "fastapi-app"
    /\ state.student_surname = "Ivanov"
    /\ state.error_message = "Error reviewing code"
    /\ \E k \in 1..Len(store.rows) : store.rows[k].Surname = "Ivanov"

\* C35: in every response review_student returns, for one task, for the
\* whole lecture and on the error path, total_tasks is the number of
\* TaskReviews of the details list.
C35_TotalTasksCountsDetails ==
    result.kind = "returned" =>
        result.value.total_tasks = Len(result.value.details)

\* A whole-lecture run that returned the reviews of two tasks.
C35_Witness ==
    /\ result.kind = "returned"
    /\ state.task = None
    /\ Len(result.value.details) = 2
    /\ result.value.total_tasks = 2

(***************************************************************************)
(* Dedupe as a reduction (checked under StoreSpec).                        *)
(***************************************************************************)
\* The (student, task) keys of the rows of a frame.
KeysOf(rows) == {RowKey(rows[i]) : i \in 1..Len(rows)}

\* C36: a dedupe is a reduction that loses no key: every key the store had
\* before has exactly one row after, every row after is one of the rows the
\* store had before, and the number of distinct keys does not grow.
C36_DedupeLosesNoKey ==
    AfterDedupe =>
        /\ \A key \in KeysOf(RowsBefore) :
              Cardinality(KeyRows(store.rows, key)) = 1
        /\ \A k \in 1..Len(store.rows) :
              \E i \in 1..Len(RowsBefore) : SurvivorOf(store.rows[k], RowsBefore[i])
        /\ Cardinality(KeysOf(store.rows)) <= Cardinality(KeysOf(RowsBefore))

\* A dedupe of three rows, two of them of one key, that left two rows.
C36_Witness ==
    /\ AfterDedupe
    /\ Len(RowsBefore) = 3
    /\ Cardinality(KeysOf(RowsBefore)) = 2
    /\ Len(store.rows) = 2

(***************************************************************************)
(* The scheduled batch entry point, homework_review_triggered (main.py and *)
(* fastapi_app/main.py): the loop over the configured students.  state is  *)
(* the batch: `students` the loaded entries, `next` the entry the loop is  *)
(* at, `review_outcomes` what it has noted, `clones` the user folders that *)
(* exist under github_repos.                                               *)
(***************************************************************************)
\* RepositoryService.cleanup_repository: the user's folder is removed.
cleanup_repository(clones, repo_path) == clones \ {repo_path}

BatchInit ==
    /\ agent = "homework_review_triggered"
    /\ node = "review_students"
    /\ \E students \in SeqsUpTo([username : Students \cup {""}, lecture : Lectures],
                                MaxStudents) :
          state = [students |-> students, next |-> 1,
                   review_outcomes |-> <<>>, clones |-> {}]
    /\ env = Nothing
    /\ result = NotCalled
    /\ trace = <<>>
    /\ calls = <<>>
    /\ store = NoFile
    /\ before = NoFile
    /\ ops = <<>>

\* One pass of the loop.  An entry without username or lecture is skipped.
\* review_student clones the repository into the user's folder and returns
\* or raises; repo_path is assigned after it has returned, and the finally
\* block cleans up when repo_path is set.
ReviewTriggeredStudent ==
    /\ Running("homework_review_triggered", "review_students")
    /\ state.next <= Len(state.students)
    /\ LET student == state.students[state.next]
       IN  IF student.username = "" \/ student.lecture = 0
           THEN state' = [state EXCEPT !.next = @ + 1]
           ELSE \E raised \in BOOLEAN :
                   LET cloned == state.clones \cup {student.username}
                       repo_path == IF raised THEN None ELSE student.username
                   IN  state' = [state EXCEPT
                           !.next = @ + 1,
                           !.review_outcomes =
                               Append(@, [username |-> student.username,
                                          success |-> ~raised]),
                           !.clones = IF repo_path # None
                                      THEN cleanup_repository(cloned, repo_path)
                                      ELSE cloned]
    /\ trace' = Append(trace, "review_student")
    /\ UNCHANGED <<agent, node, env, result, calls, store, before, ops>>

\* After the loop: the answer of the function.
HomeworkReviewTriggeredReturns ==
    /\ Running("homework_review_triggered", "review_students")
    /\ state.next > Len(state.students)
    /\ result' = Returned([status |-> 200])
    /\ node' = "END"
    /\ UNCHANGED <<agent, state, env, trace, calls, store, before, ops>>

BatchNext ==
    \/ ReviewTriggeredStudent
    \/ HomeworkReviewTriggeredReturns

BatchSpec == BatchInit /\ [][BatchNext]_vars

\* C37: in the scheduled batch the cloned repository folder of a student is
\* gone after the pass of the loop that reviewed the student, whether the
\* review succeeded or failed with an exception.
C37_CloneIsCleanedAfterReview ==
    (agent = "homework_review_triggered" /\ state.next > 1) =>
        LET student == state.students[state.next - 1]
        IN  (student.username # "" /\ student.lecture # 0) =>
                student.username \notin state.clones

\* C38: in every returned summary, a file that parses (a Python file whose
\* ast.parse gives a tree) has the complexity score 1, plus 1 for each
\* conditional or loop node and each exception handler, plus N - 1 for each
\* boolean expression of N operands, so at least 1; every other file, a
\* Python file that fails to parse and goes to the generic analyzer
\* included, has the complexity score 0.
C38_ComplexityCountsDecisionPoints ==
    result.kind = "returned" =>
        \A i \in 1..Len(state.code_files) :
            LET file == state.code_files[i]
                content == file.content
                metrics == result.value.file_metrics[i]
                Expressions == NodesAt(content, {"BoolOp"})
                RECURSIVE operands(_)
                operands(S) ==
                    IF S = {} THEN 0
                    ELSE LET k == CHOOSE x \in S : TRUE
                         IN  (content.tree[k].values - 1) + operands(S \ {k})
            IN  IF file.suffix = ".py" /\ content.parse = "tree"
                THEN /\ metrics.complexity_score =
                            1 + Cardinality(NodesAt(content, {"If"}))
                              + Cardinality(NodesAt(content, {"ExceptHandler"}))
                              + operands(Expressions)
                     /\ metrics.complexity_score >= 1
                ELSE metrics.complexity_score = 0

\* A Python file with one conditional and one boolean expression of three
\* operands: its complexity score is 4.
C38_Witness ==
    /\ result.kind = "returned"
    /\ Len(state.code_files) = 1
    /\ state.code_files[1].suffix = ".py"
    /\ state.code_files[1].content.parse = "tree"
    /\ NodesAt(state.code_files[1].content, {"If"}) # {}
    /\ \E k \in NodesAt(state.code_files[1].content, {"BoolOp"}) :
          state.code_files[1].content.tree[k].values = 3
    /\ result.value.file_metrics[1].complexity_score = 4

\* C39: for a submission of n >= 1 files, the returned summary has the sums
\* over the files of lines of code, lines of comments, functions and
\* classes, and for complexity, docstring coverage and naming score the
\* unweighted mean: the sum over the files divided by n.
C39_SummaryHasSumsAndMeans ==
    (result.kind = "returned" /\ Len(state.code_files) >= 1) =>
        LET n == Len(state.code_files)
            summary == result.value
            file_metrics == summary.file_metrics
            RECURSIVE count(_, _)
            count(field, k) ==
                IF k = 0 THEN 0 ELSE count(field, k - 1) + file_metrics[k][field]
            RECURSIVE share(_, _)
            share(field, k) ==
                IF k = 0 THEN [sum |-> 0, n |-> 1]
                ELSE LET x == share(field, k - 1)
                         y == file_metrics[k][field]
                     IN  [sum |-> x.sum * y.n + y.sum * x.n, n |-> x.n * y.n]
            IsMean(average, total) ==
                average.sum * total.n * n = total.sum * average.n
        IN  /\ summary.total_files = n
            /\ Len(file_metrics) = n
            /\ summary.total_lines_of_code = count("lines_of_code", n)
            /\ summary.total_lines_of_comments = count("lines_of_comments", n)
            /\ summary.total_functions = count("functions_count", n)
            /\ summary.total_classes = count("classes_count", n)
            /\ IsMean(summary.average_complexity,
                      [sum |-> count("complexity_score", n), n |-> 1])
            /\ IsMean(summary.average_docstring_coverage,
                      share("docstring_coverage", n))
            /\ IsMean(summary.average_naming_convention_score,
                      share("naming_convention_score", n))

\* Two Python files, of complexity 3 and 1, the first with an undocumented
\* function: the average complexity is 2 and the average docstring coverage
\* 50.
C39_Witness ==
    /\ result.kind = "returned"
    /\ Len(state.code_files) = 2
    /\ result.value.file_metrics[1].complexity_score = 3
    /\ result.value.file_metrics[2].complexity_score = 1
    /\ result.value.average_complexity.sum = 2 * result.value.average_complexity.n
    /\ result.value.file_metrics[1].docstring_coverage.sum = 0
    /\ result.value.file_metrics[1].functions_count = 1
    /\ result.value.average_docstring_coverage.sum
          = 50 * result.value.average_docstring_coverage.n
    /\ result.value.total_functions = 2

=============================================================================
